---- MODULE Spec2Model ----
(***************************************************************************)
(* Market analysis engine of the flip tracker (src/tracker_ui.py): the     *)
(* opportunity scorer, the capped price-history store, the stability       *)
(* analyzer, the stable-pick selector, the high-ticket classifier and the  *)
(* market-mover detector, driven by the refresh cycle of the script.       *)
(*                                                                         *)
(* Conventions.  A field the feed leaves out (None) is the number 0: the   *)
(* code tests these fields by truthiness only.  Percentages that the code  *)
(* holds as floats are exact rationals <<n, d>> with d > 0 in lowest       *)
(* terms, so that threshold tests are decided exactly; int(x * 0.01) on a  *)
(* price is x \div 100.                                                    *)
(***************************************************************************)
EXTENDS Integers, Sequences, FiniteSets, TLC

VARIABLES
    now,             \* int(time.time()) of the running cycle
    prices,          \* quote snapshot: item id -> [high, low, highTime, lowTime]
    volumes,         \* volume snapshot: item id -> [highPriceVolume, lowPriceVolume]
    capital,         \* operator capital
    min_margin,      \* operator margin bounds (percent)
    max_margin,
    filter_stale,    \* operator filters of the stable-pick selector
    filter_low_vol,
    history,         \* in-memory History Store of the running cycle
    file,            \* persisted History Store (HISTORY_FILE)
    pc,              \* position of the script in the refresh cycle
    opps,            \* result of find_opportunities
    stable,          \* result of get_stable_picks
    high_ticket,     \* result of find_high_ticket_items
    market_movers,   \* result of find_market_movers
    metrics,         \* result of analyze_stability called on its own
    cycles,          \* refresh cycles started so far
    data_ok,         \* whether LOAD DATA of the running cycle succeeded
    breach_info,     \* result of get_breach_info
    sessions,        \* the dashboard sessions that share HISTORY_FILE, each with its own
                     \* script position, in-memory store and opportunities
    breach_opps,     \* result of scan_breach_items
    file_ok          \* whether json.load can parse HISTORY_FILE

vars == <<now, prices, volumes, capital, min_margin, max_margin, filter_stale,
          filter_low_vol, history, file, pc, opps, stable, high_ticket,
          market_movers, metrics, cycles, data_ok, breach_info, sessions,
          breach_opps, file_ok>>

-----------------------------------------------------------------------------
(* Bounds of the model *)

MaxCycles == 3

-----------------------------------------------------------------------------
(* Program constants *)

HISTORY_CAP == 120
WINDOW_SECS == 1800
MIN_SAMPLES == 3
FALLBACK_COUNT == 10

-----------------------------------------------------------------------------
(* Exact rationals *)

Abs(x) == IF x < 0 THEN -x ELSE x

Min2(a, b) == IF a <= b THEN a ELSE b

Max2(a, b) == IF a >= b THEN a ELSE b

RECURSIVE Gcd(_, _)
Gcd(a, b) == IF b = 0 THEN a ELSE Gcd(b, a % b)

\* n / d in lowest terms, d # 0
Rat(n, d) ==
    LET g == Gcd(Abs(n), Abs(d))
        s == IF d < 0 THEN -1 ELSE 1
    IN  <<(s * n) \div g, (s * d) \div g>>

RInt(k) == <<k, 1>>

RAdd(a, b) == Rat(a[1] * b[2] + b[1] * a[2], a[2] * b[2])

RSub(a, b) == Rat(a[1] * b[2] - b[1] * a[2], a[2] * b[2])

RLt(a, b) == a[1] * b[2] < b[1] * a[2]

RLe(a, b) == a[1] * b[2] <= b[1] * a[2]

RMul(a, b) == Rat(a[1] * b[1], a[2] * b[2])

RDivInt(a, k) == Rat(a[1], a[2] * k)

RECURSIVE SumSeq(_)
SumSeq(s) == IF s = <<>> THEN 0 ELSE Head(s) + SumSeq(Tail(s))

Lcm(a, b) == (a \div Gcd(a, b)) * b

\* the least common denominator of a list of rationals
RECURSIVE CommonDen(_)
CommonDen(s) == IF s = <<>> THEN 1 ELSE Lcm(Head(s)[2], CommonDen(Tail(s)))

\* the numerators of a list of rationals over the denominator D
Numerators(s, D) == [i \in 1..Len(s) |-> s[i][1] * (D \div s[i][2])]

RSum(s) == Rat(SumSeq(Numerators(s, CommonDen(s))), CommonDen(s))

\* statistics.mean of a list of rationals
RMean(s) == RDivInt(RSum(s), Len(s))

\* floor(k * a) for k in {1000}: a carried into thousandths
FloorMilli(a) == 1000 * (a[1] \div a[2]) + (1000 * (a[1] % a[2])) \div a[2]

\* floor(1000000 * a) for 0 <= a < 2000
FloorMicro(a) ==
    LET q == a[1] \div a[2]
        r == 1000 * (a[1] % a[2])
    IN  1000000 * q + 1000 * (r \div a[2]) + (1000 * (r % a[2])) \div a[2]

\* floor(sqrt(x)), by bisection on lo <= sqrt(x) < hi
RECURSIVE IsqrtIn(_, _, _)
IsqrtIn(x, lo, hi) ==
    IF hi - lo <= 1 THEN lo
    ELSE LET mid == (lo + hi) \div 2
         IN  IF mid * mid <= x THEN IsqrtIn(x, mid, hi) ELSE IsqrtIn(x, lo, mid)

Isqrt(x) == IsqrtIn(x, 0, 46341)

\* int(x) of Python: truncation toward zero
TruncDiv(n, d) == IF n >= 0 THEN n \div d ELSE -((-n) \div d)

-----------------------------------------------------------------------------
(* Sequences *)

\* s[-k:] of Python, k >= 1
LastN(s, k) == IF Len(s) <= k THEN s ELSE SubSeq(s, Len(s) - k + 1, Len(s))

\* list.sort(key=lambda x: x[f], reverse=True): stable, descending by field f
RECURSIVE InsertDesc(_, _, _)
InsertDesc(s, x, f) ==
    IF s = <<>> THEN <<x>>
    ELSE IF s[1][f] >= x[f] THEN <<s[1]>> \o InsertDesc(Tail(s), x, f)
    ELSE <<x>> \o s

RECURSIVE SortDesc(_, _)
SortDesc(s, f) ==
    IF s = <<>> THEN <<>>
    ELSE InsertDesc(SortDesc(SubSeq(s, 1, Len(s) - 1), f), s[Len(s)], f)

\* the ids of a dict in iteration order (the feed lists ids ascending)
RECURSIVE KeysInOrder(_)
KeysInOrder(S) ==
    IF S = {} THEN <<>>
    ELSE LET m == CHOOSE x \in S : \A y \in S : x <= y
         IN  <<m>> \o KeysInOrder(S \ {m})

-----------------------------------------------------------------------------
(* Breach Window Helper: get_breach_info *)

BREACH_HOURS_UTC == <<2, 10, 19>>

BREACH_DURATION_HOURS == 2

\* now.hour and now.minute of datetime.now(timezone.utc) at the epoch second t
current_hour(t) == (t \div 3600) % 24

current_minute(t) == (t \div 60) % 60

\* the first element of a list of hours, or -1 for None
FirstOf(hits) == IF hits = <<>> THEN -1 ELSE hits[1]

\* the breach whose post-breach window holds the hour
CurrentBreach(hour) ==
    FirstOf(SelectSeq(BREACH_HOURS_UTC,
                      LAMBDA breach_hour :
                          breach_hour <= hour /\ hour < breach_hour + BREACH_DURATION_HOURS))

\* a scan that takes only the breach hours after the current one
NextBreachTodayStrict(hour, minute) ==
    FirstOf(SelectSeq(BREACH_HOURS_UTC, LAMBDA breach_hour : breach_hour > hour))

\* next_breach of the scan over sorted(BREACH_HOURS_UTC), -1 when none is left today
NextBreachToday(hour, minute) ==
    FirstOf(SelectSeq(BREACH_HOURS_UTC,
                      LAMBDA breach_hour :
                          breach_hour > hour \/ (breach_hour = hour /\ minute = 0)))

get_breach_info(t) ==
    LET hour == current_hour(t)
        minute == current_minute(t)
        today == NextBreachToday(hour, minute)
        next_breach == IF today = -1 THEN BREACH_HOURS_UTC[1] ELSE today
        mins_until == (60 - minute) % 60
        hours0 == IF today = -1 THEN (24 - hour) + next_breach ELSE next_breach - hour
        hours1 == IF mins_until > 0 THEN hours0 - 1 ELSE hours0
        hours_until == IF hours1 < 0 THEN hours1 + 24 ELSE hours1
        midnight == t - (t % 86400)
        tomorrow == next_breach <= hour /\ ~(next_breach = hour /\ minute = 0)
    IN  [in_post_breach |-> CurrentBreach(hour) # -1,
         current_breach |-> CurrentBreach(hour),
         next_breach |-> next_breach,
         next_breach_utc |-> midnight + 3600 * next_breach + (IF tomorrow THEN 86400 ELSE 0),
         hours_until |-> hours_until,
         mins_until |-> mins_until]

\* no call of get_breach_info yet
NoBreachInfo == [in_post_breach |-> FALSE, current_breach |-> -1, next_breach |-> -1,
                 next_breach_utc |-> 0, hours_until |-> 0, mins_until |-> 0]

-----------------------------------------------------------------------------
(* Catalog: fetch_items; a mapping entry without 'limit' gets limit 1 *)

items == (1 :> [name |-> "a", limit |-> 100]) @@
         (2 :> [name |-> "b", limit |-> 5]) @@
         (4 :> [name |-> "c", limit |-> 0])

\* vol.get('highPriceVolume', 0) + vol.get('lowPriceVolume', 0) of volumes.get(id, {})
TotalVol(vols, id) ==
    IF id \in DOMAIN vols THEN vols[id].highPriceVolume + vols[id].lowPriceVolume ELSE 0

\* margin = high - low - int(high * 0.01)
\* a margin that leaves out the 1 percent tax
MarginNoTax(high, low) == high - low

\* margin = high - low - int(high * 0.01)
Margin(high, low) == high - low - (high \div 100)

\* margin_pct = (margin / low) * 100 if low > 0 else 0
MarginPct(margin, low) == IF low > 0 THEN Rat(margin * 100, low) ELSE RInt(0)

\* math.log10(v) * 10000 rounded down, for 1 <= v <= 40
Log10E4(v) ==
    <<0, 3010, 4771, 6020, 6989, 7781, 8450, 9030, 9542, 10000,
      10413, 10791, 11139, 11461, 11760, 12041, 12304, 12552, 12787, 13010,
      13222, 13424, 13617, 13802, 13979, 14149, 14313, 14471, 14623, 14771,
      14913, 15051, 15185, 15314, 15440, 15563, 15682, 15797, 15910, 16020>>[v]

\* fresh_mult * 50, in 1/10000
FreshScoreE4(age) == IF age < 60 THEN 500000 ELSE IF age < 180 THEN 350000 ELSE 200000

-----------------------------------------------------------------------------
(* Breach scanner: scan_breach_items *)

\* BREACH_ITEMS, in the order of the dict, with the boost in tenths of a percent
BREACH_IDS == <<3024, 391, 6685, 385, 9075, 560>>

BREACH_ITEMS ==
    (3024 :> [name |-> "Super restore(4)", boost |-> 258]) @@
    (391 :> [name |-> "Manta ray", boost |-> 142]) @@
    (6685 :> [name |-> "Saradomin brew(4)", boost |-> 126]) @@
    (385 :> [name |-> "Shark", boost |-> 97]) @@
    (9075 :> [name |-> "Astral rune", boost |-> 63]) @@
    (560 :> [name |-> "Death rune", boost |-> 51])

\* the quote passes when the id is quoted and not (not high or not low or high <= low)
BreachPasses(quotes, id) ==
    /\ id \in DOMAIN quotes
    /\ quotes[id].high # 0
    /\ quotes[id].low # 0
    /\ ~(quotes[id].high <= quotes[id].low)

\* the record appended for a curated item that passed: 'buy' carries high and 'sell'
\* carries low, as the code writes them
BreachRecord(quotes, vols, id) ==
    LET high == quotes[id].high
        low == quotes[id].low
        margin == Margin(high, low)
    IN  [item_id |-> id, name |-> BREACH_ITEMS[id].name, buy |-> high, sell |-> low,
         margin |-> margin, margin_pct |-> MarginPct(margin, low),
         volume |-> TotalVol(vols, id),
         limit |-> IF id \in DOMAIN items THEN items[id].limit ELSE 1,
         boost |-> BREACH_ITEMS[id].boost]

RECURSIVE BreachOf(_, _, _)
BreachOf(quotes, vols, ids) ==
    IF ids = <<>> THEN <<>>
    ELSE (IF BreachPasses(quotes, Head(ids)) THEN <<BreachRecord(quotes, vols, Head(ids))>>
          ELSE <<>>)
         \o BreachOf(quotes, vols, Tail(ids))

\* return sorted(breach_opps, key=lambda x: -x['boost'])
scan_breach_items(quotes, vols) == SortDesc(BreachOf(quotes, vols, BREACH_IDS), "boost")

-----------------------------------------------------------------------------
(* Opportunity Scorer: find_opportunities *)

\* spread_ratio = high / low if low > 0 else 999; spread_ratio > num / den
SpreadOver(high, low, num, den) == IF low > 0 THEN high * den > num * low ELSE TRUE

\* The sign of the rounding error of the double (margin / low) * 100 against the exact
\* 100 * margin / low (IEEE-754 binary64, round to nearest), for the quotes of this
\* model whose exact percentage is a whole number. Where the exact percentage is not
\* a whole number the error, under 1e-12, cannot move a comparison with a slider value.
FloatSkew(margin, low) ==
    IF <<margin, low>> \in {<<14, 100>>, <<28, 200>>, <<988, 200>>, <<1078, 110>>, <<93, 10>>}
    THEN 1
    ELSE IF <<margin, low>> \in {<<29, 100>>, <<189, 10>>, <<92, 10>>, <<102, 10>>}
    THEN -1
    ELSE 0

\* margin_pct < bound, on the double the code computes
PctBelow(margin, low, bound) ==
    \/ RLt(MarginPct(margin, low), RInt(bound))
    \/ MarginPct(margin, low) = RInt(bound) /\ low > 0 /\ FloatSkew(margin, low) < 0

\* margin_pct > bound, on the double the code computes
PctAbove(margin, low, bound) ==
    \/ RLt(RInt(bound), MarginPct(margin, low))
    \/ MarginPct(margin, low) = RInt(bound) /\ low > 0 /\ FloatSkew(margin, low) > 0

\* the hard filters of one quote, in the order of the code's continue statements
OppPasses(id) ==
    /\ id \in DOMAIN items
    /\ LET p == prices[id]
       IN  /\ p.high # 0 /\ p.low # 0 /\ p.highTime # 0 /\ p.lowTime # 0
           /\ LET high == Max2(p.high, p.low)
                  low == Min2(p.high, p.low)
                  age == Max2(now - p.highTime, now - p.lowTime)
                  total_vol == TotalVol(volumes, id)
                  margin == Margin(high, low)
                  max_qty == IF high > 0 THEN Min2(capital \div high, items[id].limit) ELSE 0
              IN  /\ ~(age > 300 \/ low < 10 \/ high > capital)
                  /\ ~SpreadOver(high, low, 2, 1)
                  /\ ~(total_vol < 10)
                  /\ ~(PctBelow(margin, low, min_margin) \/ PctAbove(margin, low, max_margin))
                  /\ ~(max_qty < 1)

\* aggressive = int(profit_score * 0.5 + vol_score * 0.3 + fresh_score * 0.2)
SmartAgg(margin, max_qty, total_vol, age) ==
    LET profit_score == Min2(500000, margin * max_qty * 100)
        vol_score == 25 * Log10E4(Max2(total_vol, 1))
    IN  TruncDiv(profit_score * 5 + vol_score * 3 + FreshScoreE4(age) * 2, 100000)

\* the record built from the fields of the quote as the feed reported them
OppRecordRawFields(id) ==
    LET p == prices[id]
        high == Max2(p.high, p.low)
        low == Min2(p.high, p.low)
        age == Max2(now - p.highTime, now - p.lowTime)
        total_vol == TotalVol(volumes, id)
        margin == Margin(high, low)
        max_qty == Min2(capital \div high, items[id].limit)
    IN  [id |-> id, buy |-> p.low, sell |-> p.high, margin |-> margin,
         margin_pct |-> MarginPct(margin, low), volume |-> total_vol,
         qty |-> max_qty, age |-> age,
         smart_agg |-> SmartAgg(margin, max_qty, total_vol, age)]

\* the record appended to opps for a quote that passed
OppRecord(id) ==
    LET p == prices[id]
        high == Max2(p.high, p.low)
        low == Min2(p.high, p.low)
        age == Max2(now - p.highTime, now - p.lowTime)
        total_vol == TotalVol(volumes, id)
        margin == Margin(high, low)
        max_qty == Min2(capital \div high, items[id].limit)
    IN  [id |-> id, buy |-> low, sell |-> high, margin |-> margin,
         margin_pct |-> MarginPct(margin, low), volume |-> total_vol,
         qty |-> max_qty, age |-> age,
         smart_agg |-> SmartAgg(margin, max_qty, total_vol, age)]

RECURSIVE OppsOf(_)
OppsOf(ids) ==
    IF ids = <<>> THEN <<>>
    ELSE (IF OppPasses(Head(ids)) THEN <<OppRecord(Head(ids))>> ELSE <<>>)
         \o OppsOf(Tail(ids))

find_opportunities == SortDesc(OppsOf(KeysInOrder(DOMAIN prices)), "smart_agg")

-----------------------------------------------------------------------------
(* History Store: record_prices *)

\* if len(history[item_id]) > 120: history[item_id] = history[item_id][-120:]
\* no trim at all
TrimNone(h) == h

\* a trim that keeps the first 120 samples, h[:120]
TrimKeepFirst(h) == IF Len(h) > 120 THEN SubSeq(h, 1, 120) ELSE h

Trim(h) == IF Len(h) > HISTORY_CAP THEN LastN(h, HISTORY_CAP) ELSE h

\* the sample record_prices appends for one opportunity
SampleOf(o, t) ==
    [timestamp |-> t, buy |-> o.buy, sell |-> o.sell,
     margin_pct |-> o.margin_pct, volume |-> o.volume]

\* a loop body that appends the sample to every buffer of the store
RecordOneShared(o, hist, t) ==
    LET h0 == IF o.id \in DOMAIN hist THEN hist ELSE hist @@ (o.id :> <<>>)
    IN  [id \in DOMAIN h0 |->
            IF Len(h0[id]) + 1 > 120
            THEN SubSeq(h0[id], 2, Len(h0[id])) \o <<[timestamp |-> t, buy |-> o.buy,
                     sell |-> o.sell, margin_pct |-> o.margin_pct, volume |-> o.volume]>>
            ELSE h0[id] \o <<[timestamp |-> t, buy |-> o.buy,
                     sell |-> o.sell, margin_pct |-> o.margin_pct, volume |-> o.volume]>>]

\* one pass of the loop body of record_prices
RecordOne(o, hist, t) ==
    LET h0 == IF o.id \in DOMAIN hist THEN hist ELSE hist @@ (o.id :> <<>>)
    IN  [h0 EXCEPT ![o.id] = Trim(Append(h0[o.id], SampleOf(o, t)))]

RECURSIVE record_prices(_, _, _)
record_prices(ops, hist, t) ==
    IF ops = <<>> THEN hist
    ELSE record_prices(Tail(ops), RecordOne(Head(ops), hist, t), t)

-----------------------------------------------------------------------------
(* Stability Analyzer: analyze_stability *)

NoSignal == [ok |-> FALSE]

\* a fallback that takes h[-3:] in place of h[-10:]
StabilityWindowShortFallback(h) ==
    LET recent_h == SelectSeq(h, LAMBDA x : now - x.timestamp < 1800)
    IN  IF Len(recent_h) < 3
        THEN (IF Len(h) >= 3 THEN SubSeq(h, Len(h) - 2, Len(h)) ELSE h)
        ELSE recent_h

\* recent_h = [x for x in h if now - x['timestamp'] < 1800], with the fallback
\* h[-10:] when fewer than 3 samples are recent
StabilityWindow(h) ==
    LET recent_h == SelectSeq(h, LAMBDA x : now - x.timestamp < WINDOW_SECS)
    IN  IF Len(recent_h) < MIN_SAMPLES
        THEN (IF Len(h) >= MIN_SAMPLES THEN LastN(h, FALLBACK_COUNT) ELSE h)
        ELSE recent_h

Margins(w) == [i \in 1..Len(w) |-> w[i].margin_pct]

BuyPrices(w) == [i \in 1..Len(w) |-> RInt(w[i].buy)]

SellPrices(w) == [i \in 1..Len(w) |-> RInt(w[i].sell)]

Volumes(w) == [i \in 1..Len(w) |-> RInt(w[i].volume)]

\* statistics.stdev(margins) ** 2: the sample variance sum((x - mean)^2) / (n - 1),
\* which over the common denominator D is (n * sum(X^2) - sum(X)^2) / (D^2 * n * (n - 1))
Variance(s) ==
    LET n == Len(s)
        D == CommonDen(s)
        X == Numerators(s, D)
        sx == SumSeq(X)
        sxx == SumSeq([i \in 1..n |-> X[i] * X[i]])
    IN  IF n > 1 THEN Rat(n * sxx - sx * sx, D * D * n * (n - 1)) ELSE RInt(0)

\* The sign of the rounding error of the double
\* (second_half_price - first_half_price) / first_half_price * 100 against the exact
\* quotient (IEEE-754 binary64, round to nearest), for the windows of this model whose
\* exact change is 3, -3, 10 or -10. Elsewhere the error, under 1e-12, cannot move a
\* comparison with these thresholds.
PriceChangeSkew(w) ==
    LET mid == Len(w) \div 2
        first_half_price == IF mid > 0 THEN RMean(SubSeq(BuyPrices(w), 1, mid)) ELSE RInt(0)
        second_half_price == IF mid > 0 THEN RMean(SubSeq(BuyPrices(w), mid + 1, Len(w)))
                             ELSE RInt(0)
    IN  IF <<first_half_price, second_half_price>> \in {<<<<1000, 3>>, <<1030, 3>>>>}
        THEN 1
        ELSE IF <<first_half_price, second_half_price>> \in {<<<<1000, 3>>, <<970, 3>>>>}
        THEN -1
        ELSE 0

\* x > bound and x < bound on a double whose exact value is x and whose rounding
\* error has the sign skew
FloatAbove(x, bound, skew) == RLt(RInt(bound), x) \/ (x = RInt(bound) /\ skew > 0)

FloatBelow(x, bound, skew) == RLt(x, RInt(bound)) \/ (x = RInt(bound) /\ skew < 0)

\* price_change over the two halves of the window, in percent
PriceChange(w) ==
    LET mid == Len(w) \div 2
        first_half == RMean(SubSeq(BuyPrices(w), 1, mid))
        second_half == RMean(SubSeq(BuyPrices(w), mid + 1, Len(w)))
    IN  IF mid > 0
        THEN (IF first_half[1] # 0
              THEN Rat((second_half[1] * first_half[2] - first_half[1] * second_half[2]) * 100,
                       first_half[1] * second_half[2])
              ELSE RInt(0))
        ELSE RInt(0)

\* margin_change over the two halves of the window, in points
MarginChange(w) ==
    LET mid == Len(w) \div 2
    IN  IF mid > 0
        THEN RSub(RMean(SubSeq(Margins(w), mid + 1, Len(w))),
                  RMean(SubSeq(Margins(w), 1, mid)))
        ELSE RInt(0)

PriceTrend(price_change, skew) ==
    IF FloatAbove(price_change, 10, skew) THEN "Pumping"
    ELSE IF FloatBelow(price_change, -10, skew) THEN "Dumping"
    ELSE IF FloatAbove(price_change, 3, skew) THEN "Rising"
    ELSE IF FloatBelow(price_change, -3, skew) THEN "Falling"
    ELSE "Stable"

MarginTrend(margin_change) ==
    IF RLt(RInt(3), margin_change) THEN "Expanding"
    ELSE IF RLt(margin_change, RInt(-3)) THEN "Squeezing"
    ELSE "Stable"

FreshnessPenalty(data_age) ==
    IF data_age > 600 THEN 30000 ELSE IF data_age > 300 THEN 15000 ELSE 0

\* max(0, 50 - margin_std * 10) in thousandths; the term is 0 from a deviation of 5
DispersionTerm(variance) ==
    IF RLe(RInt(25), variance) THEN 0
    ELSE Max2(0, 50000 - 10 * Isqrt(FloorMicro(variance)))

\* score, in thousandths, before the clamp
RawScore(w) ==
    DispersionTerm(Variance(Margins(w)))
    + Min2(30000, FloorMilli(RMean(Margins(w))))
    + (IF PriceTrend(PriceChange(w), PriceChangeSkew(w)) = "Stable" THEN 10000 ELSE 0)
    + Min2(10, Len(w)) * 1000
    - FreshnessPenalty(now - w[Len(w)].timestamp)

\* 'stability_score': min(100, max(0, score)), in thousandths
\* a clamp from above only
ClampAbove(score) == IF score > 100000 THEN 100000 ELSE score

Clamp(score) == Min2(100000, Max2(0, score))

\* a guard on the samples under 1800 s old in place of all the stored ones
TooFewRecent(h) == Len(SelectSeq(h, LAMBDA x : now - x.timestamp < 1800)) < 3

\* if item_id not in history or len(history[item_id]) < 3: return None
TooFew(h) == Len(h) < MIN_SAMPLES

analyze_stability(item_id) ==
    LET h == IF item_id \in DOMAIN history THEN history[item_id] ELSE <<>>
        recent_h == StabilityWindow(h)
    IN  IF TooFew(h) THEN NoSignal
        ELSE [ok |-> TRUE,
              avg_margin |-> RMean(Margins(recent_h)),
              avg_buy |-> TruncDiv(RMean(BuyPrices(recent_h))[1], RMean(BuyPrices(recent_h))[2]),
              avg_sell |-> TruncDiv(RMean(SellPrices(recent_h))[1], RMean(SellPrices(recent_h))[2]),
              avg_volume |-> RMean(Volumes(recent_h)),
              margin_var |-> Variance(Margins(recent_h)),
              margin_trend |-> MarginTrend(MarginChange(recent_h)),
              price_trend |-> PriceTrend(PriceChange(recent_h), PriceChangeSkew(recent_h)),
              price_change |-> PriceChange(recent_h),
              stability_score |-> Clamp(RawScore(recent_h)),
              samples |-> Len(recent_h),
              data_age |-> now - recent_h[Len(recent_h)].timestamp,
              latest_buy |-> recent_h[Len(recent_h)].buy,
              latest_sell |-> recent_h[Len(recent_h)].sell,
              latest_margin |-> recent_h[Len(recent_h)].margin_pct]

-----------------------------------------------------------------------------
(* Market-Mover Detector: find_market_movers *)

\* a window without the fallback to the last 10 samples
MoversWindowRecentOnly(h) == SelectSeq(h, LAMBDA x : now - x.timestamp < WINDOW_SECS)

\* the window of find_market_movers; a window under 3 samples skips the item
MoversWindow(h) ==
    LET recent_h == SelectSeq(h, LAMBDA x : now - x.timestamp < WINDOW_SECS)
    IN  IF Len(recent_h) < MIN_SAMPLES
        THEN (IF Len(h) >= MIN_SAMPLES THEN LastN(h, FALLBACK_COUNT) ELSE h)
        ELSE recent_h

MoverPriceChange(w) ==
    LET mid == Len(w) \div 2
        first_half_price == RMean(SubSeq(BuyPrices(w), 1, mid))
        second_half_price == RMean(SubSeq(BuyPrices(w), mid + 1, Len(w)))
    IN  IF mid > 0
        THEN (IF first_half_price[1] # 0
              THEN Rat((second_half_price[1] * first_half_price[2]
                          - first_half_price[1] * second_half_price[2]) * 100,
                       first_half_price[1] * second_half_price[2])
              ELSE RInt(0))
        ELSE RInt(0)

MoverMarginChange(w) ==
    LET mid == Len(w) \div 2
    IN  IF mid > 0
        THEN RSub(RMean(SubSeq(Margins(w), mid + 1, Len(w))),
                  RMean(SubSeq(Margins(w), 1, mid)))
        ELSE RInt(0)

\* price_trend of the detector; "None" when the change is within 3 percent
MoverPriceTrend(price_change, skew) ==
    IF FloatAbove(price_change, 10, skew) THEN "PUMPING"
    ELSE IF FloatBelow(price_change, -10, skew) THEN "DUMPING"
    ELSE IF FloatAbove(price_change, 3, skew) THEN "Rising"
    ELSE IF FloatBelow(price_change, -3, skew) THEN "Falling"
    ELSE "None"

MoverMarginTrend(margin_change) ==
    IF RLt(RInt(3), margin_change) THEN "Expanding"
    ELSE IF RLt(margin_change, RInt(-3)) THEN "Squeezing"
    ELSE "None"

\* vol_ratio = current_vol / avg_vol if avg_vol > 0 else 1.0
VolRatio(w) ==
    LET total == SumSeq([i \in 1..Len(w) |-> w[i].volume])
        any_positive == \E i \in 1..Len(w) : w[i].volume > 0
    IN  IF any_positive /\ total > 0 THEN Rat(w[Len(w)].volume * Len(w), total) ELSE RInt(1)

\* the alerts of one item, in the order the code appends them
MoverAlerts(w) ==
    (IF MoverPriceTrend(MoverPriceChange(w), PriceChangeSkew(w)) # "None"
     THEN <<"price">> ELSE <<>>)
    \o (IF MoverMarginTrend(MoverMarginChange(w)) # "None" THEN <<"margin">> ELSE <<>>)
    \o (IF RLt(RInt(2), VolRatio(w)) THEN <<"volume">> ELSE <<>>)

Urgency(price_trend, margin_trend, vol_ratio) ==
    (IF price_trend = "PUMPING" THEN 50
     ELSE IF price_trend = "DUMPING" THEN 50
     ELSE IF price_trend = "Rising" \/ price_trend = "Falling" THEN 25
     ELSE 0)
    + (IF margin_trend = "Expanding" THEN 20
       ELSE IF margin_trend = "Squeezing" THEN 30
       ELSE 0)
    + (IF RLt(RInt(3), vol_ratio) THEN 20 ELSE IF RLt(RInt(2), vol_ratio) THEN 10 ELSE 0)

\* the current prices of a mover: the live quote when both prices are there,
\* and otherwise high = recent_h[-1]['buy'], low = recent_h[-1]['sell']
MoverHigh(item_id, w) ==
    LET p == IF item_id \in DOMAIN prices THEN prices[item_id]
             ELSE [high |-> 0, low |-> 0, highTime |-> 0, lowTime |-> 0]
    IN  IF p.high # 0 /\ p.low # 0 THEN Max2(p.high, p.low) ELSE w[Len(w)].buy

MoverLow(item_id, w) ==
    LET p == IF item_id \in DOMAIN prices THEN prices[item_id]
             ELSE [high |-> 0, low |-> 0, highTime |-> 0, lowTime |-> 0]
    IN  IF p.high # 0 /\ p.low # 0 THEN Min2(p.high, p.low) ELSE w[Len(w)].sell

MoverReported(item_id) ==
    /\ Len(history[item_id]) >= MIN_SAMPLES
    /\ item_id \in DOMAIN items
    /\ Len(MoversWindow(history[item_id])) >= MIN_SAMPLES
    /\ MoverAlerts(MoversWindow(history[item_id])) # <<>>

MoverRecord(item_id) ==
    LET recent_h == MoversWindow(history[item_id])
        high == MoverHigh(item_id, recent_h)
        low == MoverLow(item_id, recent_h)
        margin == IF high # 0 /\ low # 0 THEN high - low - TruncDiv(high, 100) ELSE 0
        price_change == MoverPriceChange(recent_h)
        margin_change == MoverMarginChange(recent_h)
    IN  [id |-> item_id, buy |-> low, sell |-> high, margin |-> margin,
         margin_pct |-> IF low # 0 THEN Rat(margin * 100, low) ELSE RInt(0),
         volume |-> TotalVol(volumes, item_id),
         price_trend |-> MoverPriceTrend(price_change, PriceChangeSkew(recent_h)),
         price_change |-> price_change,
         margin_trend |-> MoverMarginTrend(margin_change), margin_change |-> margin_change,
         vol_ratio |-> VolRatio(recent_h), alerts |-> MoverAlerts(recent_h),
         urgency |-> Urgency(MoverPriceTrend(price_change, PriceChangeSkew(recent_h)),
                             MoverMarginTrend(margin_change), VolRatio(recent_h)),
         samples |-> Len(recent_h)]

RECURSIVE MoversOf(_)
MoversOf(ids) ==
    IF ids = <<>> THEN <<>>
    ELSE (IF MoverReported(Head(ids)) THEN <<MoverRecord(Head(ids))>> ELSE <<>>)
         \o MoversOf(Tail(ids))

\* the movers in the order of the history dict
MoversUnsorted == MoversOf(KeysInOrder(DOMAIN history))

\* movers.sort(key=lambda x: x['urgency'], reverse=True)
find_market_movers == SortDesc(MoversOf(KeysInOrder(DOMAIN history)), "urgency")

-----------------------------------------------------------------------------
(* Stable-Pick Selector: get_stable_picks *)

\* prices.get(item_id_str, {}) with absent fields read as 0
QuoteOf(item_id) ==
    IF item_id \in DOMAIN prices THEN prices[item_id]
    ELSE [high |-> 0, low |-> 0, highTime |-> 0, lowTime |-> 0]

\* age = max(now - high_time, now - low_time) if high_time and low_time else 9999
QuoteAge(p) ==
    IF p.highTime # 0 /\ p.lowTime # 0 THEN Max2(now - p.highTime, now - p.lowTime) ELSE 9999

\* the selection without the two optional filters
StablePassesUnfiltered(item_id) ==
    /\ item_id \in DOMAIN items
    /\ LET a == analyze_stability(item_id)
           p == QuoteOf(item_id)
           low == Min2(p.high, p.low)
           max_qty == IF low > 0 THEN Min2(capital \div low, items[item_id].limit) ELSE 0
       IN  /\ a # NoSignal
           /\ ~(a.samples < 3 \/ a.stability_score < 20000)
           /\ p.high # 0 /\ p.low # 0
           /\ ~(low > capital)
           /\ ~(max_qty < 1)

\* the continue statements of the loop, in the order of the code
StablePasses(item_id) ==
    /\ item_id \in DOMAIN items
    /\ LET a == analyze_stability(item_id)
           p == QuoteOf(item_id)
           high == Max2(p.high, p.low)
           low == Min2(p.high, p.low)
           max_qty == IF low > 0 THEN Min2(capital \div low, items[item_id].limit) ELSE 0
       IN  /\ a # NoSignal
           /\ ~(a.samples < 3 \/ a.stability_score < 20000)
           /\ p.high # 0 /\ p.low # 0
           /\ ~(low > capital)
           /\ ~(max_qty < 1)
           /\ ~(filter_stale /\ QuoteAge(p) > 600)
           /\ ~(filter_low_vol /\ TotalVol(volumes, item_id) < 5)

\* int(profit_score * 0.4 + vol_score * 0.3 + fresh_score * 0.2 + stability_score * 0.1)
StableSmartAgg(margin, max_qty, vol, age, stability_score) ==
    LET profit_score == Min2(500000, margin * max_qty * 100)
        vol_score == 25 * Log10E4(Max2(vol, 1))
    IN  TruncDiv(profit_score * 4 + vol_score * 3 + FreshScoreE4(age) * 2
                 + stability_score * 10, 100000)

StableRecord(item_id) ==
    LET a == analyze_stability(item_id)
        p == QuoteOf(item_id)
        high == Max2(p.high, p.low)
        low == Min2(p.high, p.low)
        max_qty == Min2(capital \div low, items[item_id].limit)
        vol == TotalVol(volumes, item_id)
        margin == Margin(high, low)
    IN  [id |-> item_id, buy |-> low, sell |-> high, margin |-> margin,
         margin_pct |-> MarginPct(margin, low),
         avg_buy |-> a.avg_buy, avg_sell |-> a.avg_sell, avg_margin |-> a.avg_margin,
         volume |-> vol, qty |-> max_qty, capital_locked |-> low * max_qty,
         age |-> QuoteAge(p), margin_trend |-> a.margin_trend,
         price_trend |-> a.price_trend, score |-> a.stability_score,
         samples |-> a.samples,
         smart_agg |-> StableSmartAgg(margin, max_qty, vol, QuoteAge(p), a.stability_score)]

RECURSIVE StableOf(_)
StableOf(ids) ==
    IF ids = <<>> THEN <<>>
    ELSE (IF StablePasses(Head(ids)) THEN <<StableRecord(Head(ids))>> ELSE <<>>)
         \o StableOf(Tail(ids))

get_stable_picks == SortDesc(StableOf(KeysInOrder(DOMAIN history)), "smart_agg")

-----------------------------------------------------------------------------
(* High-Ticket Classifier: find_high_ticket_items *)

\* a list of integers in ascending order
RECURSIVE SortAsc(_)
SortAsc(s) ==
    IF s = <<>> THEN <<>>
    ELSE LET rest == SortAsc(Tail(s))
             below == SelectSeq(rest, LAMBDA x : x <= Head(s))
             above == SelectSeq(rest, LAMBDA x : x > Head(s))
         IN  below \o <<Head(s)>> \o above

\* all_prices: the 'high' field of every quote where it is positive
RECURSIVE AllPrices(_)
AllPrices(ids) ==
    IF ids = <<>> THEN <<>>
    ELSE (IF prices[Head(ids)].high > 0 THEN <<prices[Head(ids)].high>> ELSE <<>>)
         \o AllPrices(Tail(ids))

\* np.percentile(a, 75): linear interpolation at rank 0.75 * (n - 1) of sorted a
Percentile75(a) ==
    LET srt == SortAsc(a)
        n == Len(a)
        lo == (3 * (n - 1)) \div 4
        rem == (3 * (n - 1)) % 4
    IN  IF rem = 0 THEN RInt(srt[lo + 1])
        ELSE Rat(4 * srt[lo + 1] + rem * (srt[lo + 2] - srt[lo + 1]), 4)

price_threshold == Percentile75(AllPrices(KeysInOrder(DOMAIN prices)))

\* the catalog items without any quote whose limit is at most 8
RECURSIVE NoDataOf(_)
NoDataOf(ids) ==
    IF ids = <<>> THEN <<>>
    ELSE (IF Head(ids) \notin DOMAIN prices /\ items[Head(ids)].limit <= 8
          THEN <<[name |-> items[Head(ids)].name, limit |-> items[Head(ids)].limit,
                  buy |-> 0, sell |-> 0, volume |-> 0, age |-> 9999,
                  reasons |-> <<"no_price_data">>]>>
          ELSE <<>>)
         \o NoDataOf(Tail(ids))

\* high, low of the classifier: normalized only when both prices are there
TicketHigh(p) == IF p.high # 0 /\ p.low # 0 THEN Max2(p.high, p.low) ELSE p.high

TicketLow(p) == IF p.high # 0 /\ p.low # 0 THEN Min2(p.high, p.low) ELSE p.low

\* an item of the price snapshot that is in the catalog and at or above the threshold
AboveThreshold(item_id) ==
    /\ item_id \in DOMAIN items
    /\ LET max_price == Max2(prices[item_id].high, prices[item_id].low)
       IN  ~(max_price = 0 \/ RLt(RInt(max_price), price_threshold))

\* hourly_vol: the reported volume, else inferred from the age of the quote
HourlyVol(api_vol, age) ==
    IF api_vol > 0 THEN RInt(api_vol)
    ELSE IF age < 3600 THEN RInt(1)
    ELSE IF age < 14400 THEN <<1, 4>>
    ELSE IF age < 43200 THEN <<2, 25>>
    ELSE IF age < 86400 THEN <<1, 25>>
    ELSE RInt(0)

DailyVol(api_vol, age) ==
    IF api_vol > 0 THEN api_vol * 24
    ELSE IF age < 3600 THEN 24
    ELSE IF age < 14400 THEN 6
    ELSE IF age < 43200 THEN 2
    ELSE IF age < 86400 THEN 1
    ELSE 0

TicketMargin(high, low) == IF high # 0 /\ low # 0 THEN high - low - (high \div 100) ELSE 0

TicketMarginPct(high, low) ==
    IF low > 0 THEN Rat(TicketMargin(high, low) * 100, low) ELSE RInt(0)

\* a quantity that leaves out the trade limit of the item
TicketMaxQtyNoLimit(item_id, high) ==
    IF high > 0 /\ high <= capital THEN capital \div high ELSE 0

\* max_qty = min(capital // high, item['limit']) if high and high > 0 and high <= capital else 0
TicketMaxQty(item_id, high) ==
    IF high > 0 /\ high <= capital THEN Min2(capital \div high, items[item_id].limit) ELSE 0

\* filter_reasons of one item above the threshold, in the order of the checks
FilterReasons(item_id) ==
    LET p == prices[item_id]
        high == TicketHigh(p)
        low == TicketLow(p)
        age == QuoteAge(p)
        first == (IF ~(high # 0 /\ low # 0 /\ p.highTime # 0 /\ p.lowTime # 0)
                  THEN <<"no_valid_prices">> ELSE <<>>)
                 \o (IF age > 86400 THEN <<"stale_prices">> ELSE <<>>)
                 \o (IF (IF high # 0 /\ low > 0 THEN 2 * high > 5 * low ELSE TRUE)
                     THEN <<"bad_spread">> ELSE <<>>)
                 \o (IF high # 0 /\ high > capital THEN <<"cant_afford">> ELSE <<>>)
        second == first \o
                  (IF RLt(TicketMarginPct(high, low), RInt(2)) /\ first = <<>>
                   THEN <<"low_margin">> ELSE <<>>)
    IN  second \o
        (IF TicketMaxQty(item_id, high) < 1 /\ high # 0 /\ high <= capital /\ second = <<>>
         THEN <<"cant_buy_any">> ELSE <<>>)

\* the number of risk factors of a passed item: no volume, age over 1 h, spread over 1.5
RiskLevel(hourly_vol, age, high, low) ==
    (IF hourly_vol = RInt(0) THEN 1 ELSE 0)
    + (IF age > 3600 THEN 1 ELSE 0)
    + (IF (IF high # 0 /\ low > 0 THEN 2 * high > 3 * low ELSE TRUE) THEN 1 ELSE 0)

\* fresh_mult * 100
TicketFreshScore(age) ==
    IF age < 300 THEN 100
    ELSE IF age < 1800 THEN 90
    ELSE IF age < 3600 THEN 80
    ELSE IF age < 14400 THEN 60
    ELSE 40

\* int(flip_score * (1 - risk_level * 0.1)); in doubles 90 * (1 - 3 * 0.1) is under 63
RiskDiscount(flip_score, risk_level) ==
    IF flip_score = 90 /\ risk_level = 3 THEN 62
    ELSE TruncDiv(flip_score * (10 - risk_level), 10)

\* int(raw_profit_score * 0.40 + roi_score * 0.25 + fresh_score * 0.25 + vol_score * 0.10)
\* with raw_profit_score = min(100, profit / 5000), roi_score = min(100, roi_pct * 10),
\* roi_pct = profit / capital_locked * 100, then the risk discount
FlipScore(margin, max_qty, high, hourly_vol, age, risk_level) ==
    LET profit == margin * max_qty
        raw8 == IF profit >= 500000 THEN RInt(800) ELSE Rat(8 * profit, 5000)
        roi == IF high * max_qty > 0 THEN Rat(margin * 1000, high) ELSE RInt(0)
        roi5 == IF RLe(RInt(100), roi) THEN RInt(500) ELSE Rat(5 * roi[1], roi[2])
        rest == 5 * TicketFreshScore(age) + 2 * (IF hourly_vol = RInt(0) THEN 50 ELSE 100)
        total20 == RAdd(RAdd(raw8, roi5), RInt(rest))
    IN  RiskDiscount(TruncDiv(total20[1], 20 * total20[2]), risk_level)

PassedRecord(item_id) ==
    LET p == prices[item_id]
        high == TicketHigh(p)
        low == TicketLow(p)
        age == QuoteAge(p)
        api_vol == TotalVol(volumes, item_id)
        margin == TicketMargin(high, low)
        max_qty == TicketMaxQty(item_id, high)
        risk_level == RiskLevel(HourlyVol(api_vol, age), age, high, low)
    IN  [id |-> item_id, name |-> items[item_id].name, buy |-> low, sell |-> high,
         margin |-> margin, margin_pct |-> TicketMarginPct(high, low),
         volume |-> HourlyVol(api_vol, age), daily_vol |-> DailyVol(api_vol, age),
         profit |-> margin * max_qty, qty |-> max_qty, limit |-> items[item_id].limit,
         capital_locked |-> high * max_qty, age |-> age, risk |-> risk_level,
         flip_score |-> FlipScore(margin, max_qty, high, HourlyVol(api_vol, age), age,
                                  risk_level)]

\* the record kept for a filtered item: 'buy' holds high and 'sell' holds low
RejectedRecord(item_id) ==
    LET p == prices[item_id]
    IN  [name |-> items[item_id].name, buy |-> TicketHigh(p), sell |-> TicketLow(p),
         volume |-> HourlyVol(TotalVol(volumes, item_id), QuoteAge(p)),
         age |-> QuoteAge(p), reasons |-> FilterReasons(item_id)]

RECURSIVE PassedOf(_)
PassedOf(ids) ==
    IF ids = <<>> THEN <<>>
    ELSE (IF AboveThreshold(Head(ids)) /\ FilterReasons(Head(ids)) = <<>>
          THEN <<PassedRecord(Head(ids))>> ELSE <<>>)
         \o PassedOf(Tail(ids))

RECURSIVE RejectedOf(_)
RejectedOf(ids) ==
    IF ids = <<>> THEN <<>>
    ELSE (IF AboveThreshold(Head(ids)) /\ FilterReasons(Head(ids)) # <<>>
          THEN <<RejectedRecord(Head(ids))>> ELSE <<>>)
         \o RejectedOf(Tail(ids))

\* the number of times reason r is listed over the filtered items
RECURSIVE CountReason(_, _)
CountReason(recs, r) ==
    IF recs = <<>> THEN 0
    ELSE Len(SelectSeq(Head(recs).reasons, LAMBDA x : x = r)) + CountReason(Tail(recs), r)

\* filter_stats: every counter is raised where the loop raises it
FilterStats(ids, rejected, no_data) ==
    [total_above_threshold |-> Len(SelectSeq(ids, AboveThreshold)),
     no_valid_prices |-> CountReason(rejected, "no_valid_prices"),
     stale_prices |-> CountReason(rejected, "stale_prices"),
     bad_spread |-> CountReason(rejected, "bad_spread"),
     cant_afford |-> CountReason(rejected, "cant_afford"),
     no_volume |-> 0,
     low_margin |-> CountReason(rejected, "low_margin"),
     cant_buy_any |-> CountReason(rejected, "cant_buy_any"),
     no_price_data |-> Len(no_data),
     passed |-> Len(SelectSeq(ids, LAMBDA i : AboveThreshold(i) /\ FilterReasons(i) = <<>>))]

\* the early return [], [], 0, {} holds four values; the full return five
find_high_ticket_items ==
    LET ids == KeysInOrder(DOMAIN prices)
        passed == SortDesc(PassedOf(ids), "flip_score")
        rejected == SortDesc(RejectedOf(ids), "buy")
        no_data == NoDataOf(KeysInOrder(DOMAIN items))
    IN  IF AllPrices(ids) = <<>>
        THEN [arity |-> 4, passed |-> <<>>, rejected |-> <<>>, no_data |-> <<>>,
              threshold |-> 0, stats |-> <<>>]
        ELSE [arity |-> 5, passed |-> passed, rejected |-> rejected, no_data |-> no_data,
              threshold |-> TruncDiv(price_threshold[1], price_threshold[2]),
              stats |-> FilterStats(ids, rejected, no_data)]

-----------------------------------------------------------------------------
(* The scorer alone, on quotes drawn from a wide set *)

Epoch == 200000

\* the sessions of a model that runs one script only
NoSessions == [s \in {"a", "b"} |-> [pc |-> "start", history |-> <<>>, opps |-> <<>>]]

NoResult == [arity |-> 0, passed |-> <<>>, rejected |-> <<>>, no_data |-> <<>>,
             threshold |-> 0, stats |-> <<>>]

ScorerPrices == {0, 9, 10, 100, 115, 200, 201, 250, 1200}

ScorerAges == {-1, 10, 300, 301}

ScorerQuotes ==
    {[high |-> h, low |-> l,
      highTime |-> IF ah < 0 THEN 0 ELSE Epoch - ah,
      lowTime |-> IF al < 0 THEN 0 ELSE Epoch - al] :
        h \in ScorerPrices, l \in ScorerPrices, ah \in ScorerAges, al \in ScorerAges}

ScorerVolumes ==
    {[highPriceVolume |-> a, lowPriceVolume |-> b] : a \in {0, 4, 10}, b \in {0, 5}}

\* a second quote of the snapshot, so that the result holds up to two records
OtherQuote == [high |-> 100, low |-> 110, highTime |-> Epoch - 100, lowTime |-> Epoch - 70]

InitScorer ==
    /\ now = Epoch
    /\ \E id \in {1, 3, 4}, q \in ScorerQuotes, both \in BOOLEAN :
          prices = IF both THEN (id :> q) @@ (2 :> OtherQuote) ELSE (id :> q)
    /\ \E v \in ScorerVolumes :
          volumes = [i \in {1, 3, 4} |-> v] @@
                    (2 :> [highPriceVolume |-> 6, lowPriceVolume |-> 6])
    /\ capital = 1000
    /\ min_margin \in {3, 14}
    /\ max_margin \in {14, 30}
    /\ filter_stale = TRUE
    /\ filter_low_vol = TRUE
    /\ history = <<>>
    /\ file = <<>>
    /\ pc = "call"
    /\ opps = <<>>
    /\ stable = <<>>
    /\ high_ticket = NoResult
    /\ market_movers = <<>>
    /\ metrics = NoSignal
    /\ cycles = 0
    /\ data_ok = TRUE
    /\ breach_info = NoBreachInfo
    /\ sessions = NoSessions
    /\ breach_opps = <<>>
    /\ file_ok = TRUE

CallFindOpportunities ==
    /\ pc = "call"
    /\ opps' = find_opportunities
    /\ pc' = "ret_opps"
    /\ UNCHANGED <<now, prices, volumes, capital, min_margin, max_margin, filter_stale,
                   filter_low_vol, history, file, stable, high_ticket, market_movers,
                   metrics, cycles, data_ok, breach_info, sessions,
                   breach_opps, file_ok>>

NextScorer == CallFindOpportunities

SpecScorer == InitScorer /\ [][NextScorer]_vars

-----------------------------------------------------------------------------
(* The analyzer alone, on histories drawn from a bounded family: MaxOld samples
   older than the window followed by up to MaxRecent samples inside it *)

MaxOld == 12

MaxRecent == 3

\* margin_pct and buy price of the samples the family is built from
Shapes == <<[m |-> RInt(9), buy |-> 100], [m |-> <<19, 2>>, buy |-> 120],
            [m |-> RInt(-50), buy |-> 100], [m |-> RInt(1000), buy |-> 104]>>

ShapedSample(k, ts) ==
    [timestamp |-> ts, buy |-> Shapes[k].buy, sell |-> Shapes[k].buy + 10,
     margin_pct |-> Shapes[k].m, volume |-> 10 * k]

\* n samples older than the window, 900 s apart, the newest one `gap' s old
OldPart(n, first, gap) ==
    [i \in 1..n |-> ShapedSample(((first + i) % Len(Shapes)) + 1, Epoch - gap - 900 * (n - i))]

\* the samples inside the window, 30 s apart, the newest one `age' s old
RecentPart(ks, age) ==
    [i \in 1..Len(ks) |-> ShapedSample(ks[i], Epoch - age - 30 * (Len(ks) - i))]

ShapeSeqs == UNION {[1..n -> 1..Len(Shapes)] : n \in 0..MaxRecent}

(* A second family: six samples inside the window, whose halves put the price change,
   the margin change and the volume ratio on, just over and well over the thresholds
   of find_market_movers *)

EdgeBuys ==
    {<<100, 100, 100, 100, 100, 100>>, <<100, 100, 100, 103, 103, 103>>,
     <<100, 100, 100, 104, 104, 104>>, <<100, 100, 100, 111, 111, 111>>,
     <<100, 100, 100, 89, 89, 89>>, <<333, 333, 334, 343, 343, 344>>,
     <<333, 333, 334, 323, 323, 324>>}

EdgeMargins ==
    {<<5, 5, 5, 5, 5, 5>>, <<5, 5, 5, 8, 8, 8>>, <<5, 5, 5, 9, 9, 9>>, <<9, 9, 9, 5, 5, 5>>}

EdgeVolumes ==
    {<<0, 0, 0, 0, 0, 0>>, <<10, 10, 10, 10, 10, 10>>, <<10, 10, 10, 10, 10, 25>>,
     <<10, 10, 10, 10, 10, 30>>, <<10, 10, 10, 10, 10, 50>>, <<10, 10, 10, 10, 10, 100>>}

EdgeHistory(buys, margins, vols) ==
    [i \in 1..6 |-> [timestamp |-> Epoch - 10 - 30 * (6 - i), buy |-> buys[i],
                     sell |-> buys[i] + 10, margin_pct |-> RInt(margins[i]),
                     volume |-> vols[i]]]

EdgeHistories ==
    {EdgeHistory(b, m, v) : b \in EdgeBuys, m \in EdgeMargins, v \in EdgeVolumes}

\* the histories of a second catalog item and of an id the catalog does not hold
SecondHistories ==
    {<<>>,
     EdgeHistory(<<100, 100, 100, 111, 111, 111>>, <<9, 9, 9, 5, 5, 5>>,
                 <<10, 10, 10, 10, 10, 10>>),
     EdgeHistory(<<100, 100, 100, 111, 111, 111>>, <<9, 9, 9, 5, 5, 5>>,
                 <<10, 10, 10, 10, 10, 100>>),
     EdgeHistory(<<100, 100, 100, 104, 104, 104>>, <<5, 5, 5, 5, 5, 5>>,
                 <<10, 10, 10, 10, 10, 10>>),
     EdgeHistory(<<100, 100, 100, 100, 100, 100>>, <<5, 5, 5, 9, 9, 9>>,
                 <<10, 10, 10, 10, 10, 30>>),
     EdgeHistory(<<100, 100, 100, 89, 89, 89>>, <<5, 5, 5, 5, 5, 5>>,
                 <<10, 10, 10, 10, 10, 10>>)}

UnlistedHistories ==
    {<<>>, EdgeHistory(<<100, 100, 100, 111, 111, 111>>, <<5, 5, 5, 5, 5, 5>>,
                       <<10, 10, 10, 10, 10, 10>>)}

\* a history dict of the ids whose buffer is not empty
StoreOf(h1, h2, h3) ==
    [id \in {i \in {1, 2, 3} : <<h1, h2, h3>>[i] # <<>>} |-> <<h1, h2, h3>>[id]]

\* A third family: short windows whose margins spread around their mean
RampMargins == {<<1, 2, 3>>, <<2, 4, 6>>, <<4, 4, 4>>, <<1, 2, 3, 4>>, <<3, 1>>}

RampHistory(ms, age) ==
    [i \in 1..Len(ms) |-> [timestamp |-> Epoch - age - 30 * (Len(ms) - i), buy |-> 100,
                           sell |-> 110, margin_pct |-> RInt(ms[i]), volume |-> 10]]

InitAnalyzer ==
    /\ now = Epoch
    /\ prices \in {<<>>, (1 :> OtherQuote),
                   (1 :> [high |-> 110, low |-> 0, highTime |-> Epoch - 70, lowTime |-> 0])}
    /\ volumes = <<>>
    /\ capital = 1000
    /\ min_margin = 3
    /\ max_margin = 30
    /\ filter_stale = TRUE
    /\ filter_low_vol = TRUE
    /\ \/ \E n \in 0..MaxOld, first \in {0, 1}, ks \in ShapeSeqs, age \in {10, 400, 700} :
             LET h == OldPart(n, first, 2000) \o RecentPart(ks, age)
             IN  history = IF h = <<>> THEN <<>> ELSE (1 :> h)
       \/ \E h1 \in EdgeHistories, h2 \in SecondHistories, h3 \in UnlistedHistories :
             history = StoreOf(h1, h2, h3)
       \/ \E ms \in RampMargins, age \in {10, 700} : history = (1 :> RampHistory(ms, age))
    /\ file = history
    /\ pc = "call"
    /\ opps = <<>>
    /\ stable = <<>>
    /\ high_ticket = NoResult
    /\ market_movers = <<>>
    /\ metrics = NoSignal
    /\ cycles = 0
    /\ data_ok = TRUE
    /\ breach_info = NoBreachInfo
    /\ sessions = NoSessions
    /\ breach_opps = <<>>
    /\ file_ok = TRUE

CallAnalyzeStability ==
    /\ pc = "call"
    /\ metrics' = analyze_stability(1)
    /\ pc' = "ret_analyze"
    /\ UNCHANGED <<now, prices, volumes, capital, min_margin, max_margin, filter_stale,
                   filter_low_vol, history, file, opps, stable, high_ticket,
                   market_movers, cycles, data_ok, breach_info, sessions,
                   breach_opps, file_ok>>

CallFindMarketMovers ==
    /\ pc = "call"
    /\ market_movers' = find_market_movers
    /\ pc' = "ret_movers"
    /\ UNCHANGED <<now, prices, volumes, capital, min_margin, max_margin, filter_stale,
                   filter_low_vol, history, file, opps, stable, high_ticket,
                   metrics, cycles, data_ok, breach_info, sessions,
                   breach_opps, file_ok>>

NextAnalyzer == CallAnalyzeStability \/ CallFindMarketMovers

SpecAnalyzer == InitAnalyzer /\ [][NextAnalyzer]_vars

-----------------------------------------------------------------------------
(* The high-ticket classifier alone *)

\* the two prices of a quote as the feed may report them: either way round, wide,
\* at the 2.5 spread, over the capital, thin, at the 2 % margin, and one-sided
TicketPairs ==
    {<<110, 100>>, <<100, 110>>, <<300, 100>>, <<250, 100>>, <<1200, 1100>>,
     <<101, 100>>, <<103, 100>>, <<110, 0>>, <<0, 110>>}

\* age of the high side of a quote in seconds, -1 for a missing timestamp
TicketAges == {-1, 10, 4000, 86400, 90000}

TicketQuotes ==
    {[high |-> hl[1], low |-> hl[2],
      highTime |-> IF a < 0 THEN 0 ELSE Epoch - a, lowTime |-> Epoch - 10] :
        hl \in TicketPairs, a \in TicketAges}

FreshQuote(h, l) == [high |-> h, low |-> l, highTime |-> Epoch - 10, lowTime |-> Epoch - 10]

\* ten quotes with the sell prices 10, 20, ..., 100
TenQuotes == [i \in 1..10 |-> FreshQuote(10 * i, 10 * i - 1)]

\* the part of a snapshot that quotes item id with one of qs, or leaves it out
QuoteOrNone(id, qs) == {<<>>} \cup {(id :> q) : q \in qs}

InitTicket ==
    /\ now = Epoch
    /\ \/ prices = TenQuotes
       \/ \E q1 \in QuoteOrNone(1, TicketQuotes),
             q2 \in QuoteOrNone(2, {FreshQuote(230, 200), FreshQuote(200, 500),
                                    FreshQuote(900, 800)}),
             q3 \in QuoteOrNone(3, {FreshQuote(1000, 900)}),
             q4 \in QuoteOrNone(4, {FreshQuote(400, 300)}) :
             prices = q1 @@ q2 @@ q3 @@ q4
    /\ volumes \in {<<>>, [i \in 1..4 |-> [highPriceVolume |-> 3, lowPriceVolume |-> 2]]}
    /\ capital \in {1000, 250}
    /\ min_margin = 3
    /\ max_margin = 30
    /\ filter_stale = TRUE
    /\ filter_low_vol = TRUE
    /\ history = <<>>
    /\ file = <<>>
    /\ pc = "call"
    /\ opps = <<>>
    /\ stable = <<>>
    /\ high_ticket = NoResult
    /\ market_movers = <<>>
    /\ metrics = NoSignal
    /\ cycles = 0
    /\ data_ok = TRUE
    /\ breach_info = NoBreachInfo
    /\ sessions = NoSessions
    /\ breach_opps = <<>>
    /\ file_ok = TRUE

CallFindHighTicket ==
    /\ pc = "call"
    /\ high_ticket' = find_high_ticket_items
    /\ pc' = "ret_ticket"
    /\ UNCHANGED <<now, prices, volumes, capital, min_margin, max_margin, filter_stale,
                   filter_low_vol, history, file, opps, stable, market_movers,
                   metrics, cycles, data_ok, breach_info, sessions,
                   breach_opps, file_ok>>

NextTicket == CallFindHighTicket

SpecTicket == InitTicket /\ [][NextTicket]_vars

-----------------------------------------------------------------------------
(* The stable-pick selector alone, with both filters on and off *)

StablePairs == {<<1000, 900>>, <<900, 1000>>, <<1200, 1100>>, <<110, 100>>, <<110, 0>>,
                <<0, 110>>}

StableAges == {-1, 10, 600, 601}

StableQuotes ==
    {[high |-> hl[1], low |-> hl[2],
      highTime |-> IF a < 0 THEN 0 ELSE Epoch - a,
      lowTime |-> IF a < 0 THEN 0 ELSE Epoch - 10] : hl \in StablePairs, a \in StableAges}

\* a steady buffer, a buffer of two samples, and two buffers of old, scattered samples
SteadyHistory ==
    EdgeHistory(<<100, 100, 100, 100, 100, 100>>, <<5, 5, 5, 5, 5, 5>>,
                <<10, 10, 10, 10, 10, 10>>)

StableHistories == {SteadyHistory, SubSeq(SteadyHistory, 5, 6), OldPart(3, 0, 2000),
                    OldPart(4, 1, 2000)}

\* the other ids of the store: a listed item, an item of limit 0, an unlisted id
StableExtras == {{}, {2}, {3}, {4}, {2, 4}}

InitStable ==
    /\ now = Epoch
    /\ \E h1 \in StableHistories, extra \in StableExtras :
          history = [id \in {1} \cup extra |-> IF id = 1 THEN h1 ELSE SteadyHistory]
    /\ \E q1 \in QuoteOrNone(1, StableQuotes), q2 \in QuoteOrNone(2, {FreshQuote(110, 100)}) :
          prices = q1 @@ q2 @@ (3 :> FreshQuote(110, 100)) @@ (4 :> FreshQuote(110, 100))
    /\ volumes \in {<<>>,
                    [id \in 1..4 |-> [highPriceVolume |-> 2, lowPriceVolume |-> 2]],
                    [id \in 1..4 |-> [highPriceVolume |-> 3, lowPriceVolume |-> 2]]}
    /\ capital \in {1000, 250}
    /\ min_margin = 3
    /\ max_margin = 30
    /\ filter_stale \in BOOLEAN
    /\ filter_low_vol \in BOOLEAN
    /\ file = history
    /\ pc = "call"
    /\ opps = <<>>
    /\ stable = <<>>
    /\ high_ticket = NoResult
    /\ market_movers = <<>>
    /\ metrics = NoSignal
    /\ cycles = 0
    /\ data_ok = TRUE
    /\ breach_info = NoBreachInfo
    /\ sessions = NoSessions
    /\ breach_opps = <<>>
    /\ file_ok = TRUE

CallGetStablePicks ==
    /\ pc = "call"
    /\ stable' = get_stable_picks
    /\ pc' = "ret_stable"
    /\ UNCHANGED <<now, prices, volumes, capital, min_margin, max_margin, filter_stale,
                   filter_low_vol, history, file, opps, high_ticket, market_movers,
                   metrics, cycles, data_ok, breach_info, sessions,
                   breach_opps, file_ok>>

NextStable == CallGetStablePicks

SpecStable == InitStable /\ [][NextStable]_vars

-----------------------------------------------------------------------------
(* The scorer, the stable-pick selector and the high-ticket classifier called in turn
   on one snapshot, as lines 2077, 2082 and 2083 call them *)

MarginPairs == {<<1000, 900>>, <<900, 1000>>, <<110, 100>>, <<105, 100>>, <<99, 90>>,
                <<199, 180>>, <<110, 0>>, <<0, 110>>}

MarginQuotes ==
    {[high |-> hl[1], low |-> hl[2],
      highTime |-> IF a < 0 THEN 0 ELSE Epoch - a, lowTime |-> Epoch - 10] :
        hl \in MarginPairs, a \in {-1, 10}}

InitMargin ==
    /\ now = Epoch
    /\ \E extra \in {{}, {2}} :
          history = [id \in {1} \cup extra |-> SteadyHistory]
    /\ \E q1 \in QuoteOrNone(1, MarginQuotes),
          q2 \in QuoteOrNone(2, {FreshQuote(110, 100), FreshQuote(230, 200)}) :
          prices = q1 @@ q2 @@ (4 :> FreshQuote(110, 100))
    /\ volumes \in {<<>>,
                    [id \in 1..4 |-> [highPriceVolume |-> 3, lowPriceVolume |-> 2]],
                    [id \in 1..4 |-> [highPriceVolume |-> 6, lowPriceVolume |-> 6]]}
    /\ capital \in {1000, 250}
    /\ min_margin = 3
    /\ max_margin = 30
    /\ filter_stale = TRUE
    /\ filter_low_vol \in BOOLEAN
    /\ file = history
    /\ pc = "call"
    /\ opps = <<>>
    /\ stable = <<>>
    /\ high_ticket = NoResult
    /\ market_movers = <<>>
    /\ metrics = NoSignal
    /\ cycles = 0
    /\ data_ok = TRUE
    /\ breach_info = NoBreachInfo
    /\ sessions = NoSessions
    /\ breach_opps = <<>>
    /\ file_ok = TRUE

ScoreSnapshot ==
    /\ pc = "call"
    /\ opps' = find_opportunities
    /\ pc' = "scored"
    /\ UNCHANGED <<now, prices, volumes, capital, min_margin, max_margin, filter_stale,
                   filter_low_vol, history, file, stable, high_ticket, market_movers,
                   metrics, cycles, data_ok, breach_info, sessions,
                   breach_opps, file_ok>>

SelectFromSnapshot ==
    /\ pc = "scored"
    /\ stable' = get_stable_picks
    /\ pc' = "selected"
    /\ UNCHANGED <<now, prices, volumes, capital, min_margin, max_margin, filter_stale,
                   filter_low_vol, history, file, opps, high_ticket, market_movers,
                   metrics, cycles, data_ok, breach_info, sessions,
                   breach_opps, file_ok>>

ClassifySnapshot ==
    /\ pc = "selected"
    /\ high_ticket' = find_high_ticket_items
    /\ pc' = "classified"
    /\ UNCHANGED <<now, prices, volumes, capital, min_margin, max_margin, filter_stale,
                   filter_low_vol, history, file, opps, stable, market_movers,
                   metrics, cycles, data_ok, breach_info, sessions,
                   breach_opps, file_ok>>

NextMargin == ScoreSnapshot \/ SelectFromSnapshot \/ ClassifySnapshot

SpecMargin == InitMargin /\ [][NextMargin]_vars

-----------------------------------------------------------------------------
(* The breach helper alone, at every hour of a day *)

\* an epoch second at 00:00:00 UTC
Midnight == 172800

ClockMinutes == {0, 1, 30, 59}

ClockSeconds == {0, 30}

InitBreach ==
    /\ \E h \in 0..23, m \in ClockMinutes, sec \in ClockSeconds :
          now = Midnight + 3600 * h + 60 * m + sec
    /\ prices = <<>>
    /\ volumes = <<>>
    /\ capital = 1000
    /\ min_margin = 3
    /\ max_margin = 30
    /\ filter_stale = TRUE
    /\ filter_low_vol = TRUE
    /\ history = <<>>
    /\ file = <<>>
    /\ pc = "call"
    /\ opps = <<>>
    /\ stable = <<>>
    /\ high_ticket = NoResult
    /\ market_movers = <<>>
    /\ metrics = NoSignal
    /\ cycles = 0
    /\ data_ok = TRUE
    /\ breach_info = NoBreachInfo
    /\ sessions = NoSessions
    /\ breach_opps = <<>>
    /\ file_ok = TRUE

CallGetBreachInfo ==
    /\ pc = "call"
    /\ breach_info' = get_breach_info(now)
    /\ pc' = "ret_breach"
    /\ UNCHANGED <<now, prices, volumes, capital, min_margin, max_margin, filter_stale,
                   filter_low_vol, history, file, opps, stable, high_ticket,
                   market_movers, metrics, cycles, data_ok, sessions,
                   breach_opps, file_ok>>

NextBreach == CallGetBreachInfo

SpecBreach == InitBreach /\ [][NextBreach]_vars

-----------------------------------------------------------------------------
(* The breach scanner alone, on quotes of the curated items: in order, inverted, equal
   and with one side missing *)

ScanQuote(high, low) == [high |-> high, low |-> low, highTime |-> now, lowTime |-> now]

RestoreQuotes == {<<>>} \cup
    {3024 :> ScanQuote(q[1], q[2]) :
        q \in {<<11000, 10000>>, <<10000, 11000>>, <<11000, 11000>>, <<11000, 0>>,
               <<0, 10000>>}}

MantaQuotes == {<<>>} \cup
    {391 :> ScanQuote(q[1], q[2]) : q \in {<<1450, 1300>>, <<1300, 1450>>, <<1399, 1300>>}}

DeathQuotes == {<<>>, 560 :> ScanQuote(230, 200), 1 :> ScanQuote(230, 200)}

ScanVolumes == {<<>>, 3024 :> [highPriceVolume |-> 40, lowPriceVolume |-> 2],
                (391 :> [highPriceVolume |-> 0, lowPriceVolume |-> 7]) @@
                (560 :> [highPriceVolume |-> 5, lowPriceVolume |-> 5])}

InitScan ==
    /\ now = Epoch
    /\ \E r \in RestoreQuotes, m \in MantaQuotes, d \in DeathQuotes : prices = r @@ m @@ d
    /\ volumes \in ScanVolumes
    /\ capital = 1000
    /\ min_margin = 3
    /\ max_margin = 30
    /\ filter_stale = TRUE
    /\ filter_low_vol = TRUE
    /\ history = <<>>
    /\ file = <<>>
    /\ pc = "call"
    /\ opps = <<>>
    /\ stable = <<>>
    /\ high_ticket = NoResult
    /\ market_movers = <<>>
    /\ metrics = NoSignal
    /\ cycles = 0
    /\ data_ok = TRUE
    /\ breach_info = NoBreachInfo
    /\ sessions = NoSessions
    /\ breach_opps = <<>>
    /\ file_ok = TRUE

\* breach_opps = scan_breach_items(prices, volumes, items, item_names)
CallScanBreachItems ==
    /\ pc = "call"
    /\ breach_opps' = scan_breach_items(prices, volumes)
    /\ pc' = "ret_scan"
    /\ UNCHANGED <<now, prices, volumes, capital, min_margin, max_margin, filter_stale,
                   filter_low_vol, history, file, opps, stable, high_ticket,
                   market_movers, metrics, cycles, data_ok, breach_info, sessions, file_ok>>

NextScan == CallScanBreachItems

SpecScan == InitScan /\ [][NextScan]_vars

-----------------------------------------------------------------------------
(* An item that no longer qualifies: its buffer gets no new sample while the refresh
   cycles go on calling the analyzer and the detector *)

MaxIdle == 3

\* the time from one refresh cycle to the next one that is looked at
IdleGaps == {30, 300, 1500, 86400}

\* n samples 30 s apart, the newest one 10 s old at Epoch
QuietHistory(buys, margins) ==
    [i \in 1..Len(buys) |-> [timestamp |-> Epoch - 10 - 30 * (Len(buys) - i),
                             buy |-> buys[i], sell |-> buys[i] + 10,
                             margin_pct |-> RInt(margins[i]), volume |-> 10]]

\* buffers of 2 to 12 samples: flat, trending, and longer than the fallback with a
\* trend in the oldest two samples only or in the last ten only
QuietHistories ==
    {QuietHistory(<<100, 100>>, <<5, 5>>),
     QuietHistory(<<100, 100, 100>>, <<5, 5, 5>>),
     QuietHistory(<<100, 100, 111, 111>>, <<5, 5, 5, 5>>),
     QuietHistory(<<100, 100, 100, 104, 104, 104>>, <<5, 5, 5, 9, 9, 9>>),
     QuietHistory(<<130, 130, 100, 100, 100, 100, 100, 100, 100, 100, 100, 100>>,
                  <<5, 5, 5, 5, 5, 5, 5, 5, 5, 5, 5, 5>>),
     QuietHistory(<<106, 106, 100, 100, 100, 100, 100, 104, 104, 104, 104, 104>>,
                  <<9, 9, 5, 5, 5, 5, 5, 5, 5, 5, 5, 5>>)}

InitAging ==
    /\ now = Epoch
    /\ prices \in {<<>>, (1 :> OtherQuote)}
    /\ volumes = <<>>
    /\ capital = 1000
    /\ min_margin = 3
    /\ max_margin = 30
    /\ filter_stale = TRUE
    /\ filter_low_vol = TRUE
    /\ \/ history \in {(1 :> h) : h \in QuietHistories}
       \/ \E n \in {1, 2, 11}, ks \in {<<>>, <<1, 2>>, <<1, 2, 3>>, <<1, 1, 4>>} :
             history = (1 :> (OldPart(n, 0, 2000) \o RecentPart(ks, 10)))
    /\ file = history
    /\ pc = "idle"
    /\ opps = <<>>
    /\ stable = <<>>
    /\ high_ticket = NoResult
    /\ market_movers = <<>>
    /\ metrics = NoSignal
    /\ cycles = 0
    /\ data_ok = TRUE
    /\ breach_info = NoBreachInfo
    /\ sessions = NoSessions
    /\ breach_opps = <<>>
    /\ file_ok = TRUE

\* a cycle in which the item does not qualify: opps holds no sample of it, the store is
\* left as loaded, and the analyzer and the detector are called on it
AnalyzeIdle ==
    /\ pc = "idle"
    /\ metrics' = analyze_stability(1)
    /\ market_movers' = find_market_movers
    /\ pc' = "analyzed"
    /\ UNCHANGED <<now, prices, volumes, capital, min_margin, max_margin, filter_stale,
                   filter_low_vol, history, file, opps, stable, high_ticket,
                   cycles, data_ok, breach_info, sessions, breach_opps, file_ok>>

\* time passes until a later refresh cycle
Wait ==
    /\ pc = "analyzed"
    /\ cycles < MaxIdle
    /\ cycles' = cycles + 1
    /\ \E gap \in IdleGaps : now' = now + gap
    /\ pc' = "idle"
    /\ UNCHANGED <<prices, volumes, capital, min_margin, max_margin, filter_stale,
                   filter_low_vol, history, file, opps, stable, high_ticket,
                   market_movers, metrics, data_ok, breach_info, sessions, breach_opps, file_ok>>

NextAging == AnalyzeIdle \/ Wait

SpecAging == InitAging /\ [][NextAging]_vars

-----------------------------------------------------------------------------
(* The refresh cycle: one run of the script per cycle *)

\* the opportunity an earlier cycle recorded for an item at a steady quote
SeedOpp(id) ==
    IF id = 1
    THEN [id |-> 1, buy |-> 100, sell |-> 110, margin_pct |-> MarginPct(Margin(110, 100), 100),
          volume |-> 12]
    ELSE [id |-> 2, buy |-> 200, sell |-> 230, margin_pct |-> MarginPct(Margin(230, 200), 200),
          volume |-> 14]

\* the buffer n earlier cycles 900 s apart leave for an item that qualified in each,
\* the last cycle `gap' s before Epoch
SeedBuffer(id, n, gap) ==
    [k \in 1..n |-> SampleOf(SeedOpp(id), Epoch - gap - 900 * (n - k))]

\* the store in which item 1 qualified in the last n1 cycles and item 2 in the last n2
SeedStore(n1, n2, gap) ==
    [id \in {i \in {1, 2} : (IF i = 1 THEN n1 ELSE n2) > 0} |->
        SeedBuffer(id, IF id = 1 THEN n1 ELSE n2, gap)]

Seeds ==
    {SeedStore(c[1], c[2], c[3]) :
        c \in {<<0, 0, 30>>, <<2, 0, 30>>, <<119, 3, 30>>, <<120, 12, 2000>>}}

\* the quotes the feed may hold for an item at time t
QuotesAt(id, t) ==
    IF id = 1
    THEN {[high |-> 110, low |-> 100, highTime |-> t - 10, lowTime |-> t - 20],
          [high |-> 120, low |-> 132, highTime |-> t - 20, lowTime |-> t - 10],
          [high |-> 110, low |-> 0, highTime |-> t - 10, lowTime |-> 0],
          [high |-> 110, low |-> 100, highTime |-> t - 700, lowTime |-> t - 20]}
    ELSE {[high |-> 230, low |-> 200, highTime |-> t - 10, lowTime |-> t - 10],
          [high |-> 200, low |-> 500, highTime |-> t - 4000, lowTime |-> t - 10]}

\* the snapshots the feed may return at time t: each item with one of its quotes, or absent
Snapshots(t) ==
    UNION {[S -> UNION {QuotesAt(i, t) : i \in S}] : S \in SUBSET {1, 2}}

SnapshotOk(snap, t) == \A i \in DOMAIN snap : snap[i] \in QuotesAt(i, t)

VolumesAt == (1 :> [highPriceVolume |-> 6, lowPriceVolume |-> 6]) @@
             (2 :> [highPriceVolume |-> 10, lowPriceVolume |-> 4])

RefreshSecs == 30

Init ==
    /\ now = Epoch - RefreshSecs
    /\ prices = <<>>
    /\ volumes = <<>>
    /\ capital = 1000
    /\ min_margin = 3
    /\ max_margin = 30
    /\ filter_stale = TRUE
    /\ filter_low_vol = TRUE
    /\ history = <<>>
    /\ file \in Seeds
    /\ pc = "start"
    /\ opps = <<>>
    /\ stable = <<>>
    /\ high_ticket = NoResult
    /\ market_movers = <<>>
    /\ metrics = NoSignal
    /\ cycles = 0
    /\ data_ok = TRUE
    /\ breach_info = NoBreachInfo
    /\ sessions = NoSessions
    /\ breach_opps = <<>>
    /\ file_ok = TRUE

\* the positions at which a run of the script has ended and the next one may start
RunEnded == {"start", "done", "crashed", "stopped", "save_failed"}

\* a script without the stop: the run goes on whatever LOAD DATA did
AfterFetchGoesOn(ok) == "opps"

\* if not data_ok: st.stop()
AfterFetch(ok) == IF ok THEN "opps" ELSE "stopped"

\* what load_history returns for a file that json.load cannot parse
UnreadableFile == <<>>

\* a load that hands on whatever the file holds
load_history_unchecked == file

\* load_history: json.load(f), and {} when it raises
load_history == IF file_ok THEN file ELSE UnreadableFile

\* LOAD DATA: fetch_items, fetch_prices, fetch_volumes, load_history
LoadData ==
    /\ pc \in RunEnded
    /\ cycles < MaxCycles
    /\ cycles' = cycles + 1
    /\ now' = now + RefreshSecs
    /\ \E snap \in Snapshots(now') :
          /\ SnapshotOk(snap, now')
          /\ prices' = snap
    /\ \E withVolumes \in BOOLEAN : volumes' = IF withVolumes THEN VolumesAt ELSE <<>>
    /\ history' = load_history
    /\ data_ok' = TRUE
    /\ opps' = <<>>
    /\ stable' = <<>>
    /\ high_ticket' = NoResult
    /\ market_movers' = <<>>
    /\ pc' = AfterFetch(TRUE)
    /\ UNCHANGED <<capital, min_margin, max_margin, filter_stale, filter_low_vol, file,
                   metrics, breach_info, sessions,
                   breach_opps, file_ok>>


\* LOAD DATA when fetch_items, fetch_prices or fetch_volumes raises: the except branch
\* binds items, prices, volumes and history to {}
LoadDataFails ==
    /\ pc \in RunEnded
    /\ cycles < MaxCycles
    /\ cycles' = cycles + 1
    /\ now' = now + RefreshSecs
    /\ prices' = <<>>
    /\ volumes' = <<>>
    /\ history' = <<>>
    /\ data_ok' = FALSE
    /\ opps' = <<>>
    /\ stable' = <<>>
    /\ high_ticket' = NoResult
    /\ market_movers' = <<>>
    /\ pc' = AfterFetch(FALSE)
    /\ UNCHANGED <<capital, min_margin, max_margin, filter_stale, filter_low_vol, file,
                   metrics, breach_info, sessions,
                   breach_opps, file_ok>>

\* a cycle that goes on to the analyzers without recording
AfterOppsSkip(ops) == "stable"

\* if opps: history = record_prices(opps, history); save_history(history)
AfterOpps(ops) == IF ops # <<>> THEN "record" ELSE "stable"

FindOpportunities ==
    /\ pc = "opps"
    /\ opps' = find_opportunities
    /\ pc' = AfterOpps(opps')
    /\ UNCHANGED <<now, prices, volumes, capital, min_margin, max_margin, filter_stale,
                   filter_low_vol, history, file, stable, high_ticket, market_movers,
                   metrics, cycles, data_ok, breach_info, sessions,
                   breach_opps, file_ok>>

RecordPrices ==
    /\ pc = "record"
    /\ history' = record_prices(opps, history, now)
    /\ pc' = "save"
    /\ UNCHANGED <<now, prices, volumes, capital, min_margin, max_margin, filter_stale,
                   filter_low_vol, file, opps, stable, high_ticket, market_movers,
                   metrics, cycles, data_ok, breach_info, sessions,
                   breach_opps, file_ok>>

\* save_history: json.dump of the whole store
SaveHistory ==
    /\ pc = "save"
    /\ file' = history
    /\ file_ok' = TRUE
    /\ pc' = "stable"
    /\ UNCHANGED <<now, prices, volumes, capital, min_margin, max_margin, filter_stale,
                   filter_low_vol, history, opps, stable, high_ticket, market_movers,
                   metrics, cycles, data_ok, breach_info, sessions,
                   breach_opps>>

\* save_history raises: open(HISTORY_FILE, 'w') fails and the file is as it was, or
\* json.dump fails after the file was truncated. Nothing catches the exception and
\* the run ends.
SaveHistoryFails ==
    /\ pc = "save"
    /\ \E truncated \in BOOLEAN :
          /\ file' = IF truncated THEN UnreadableFile ELSE file
          /\ file_ok' = IF truncated THEN FALSE ELSE file_ok
    /\ pc' = "save_failed"
    /\ UNCHANGED <<now, prices, volumes, capital, min_margin, max_margin, filter_stale,
                   filter_low_vol, history, opps, stable, high_ticket, market_movers,
                   metrics, cycles, data_ok, breach_info, sessions,
                   breach_opps>>

StablePicks ==
    /\ pc = "stable"
    /\ stable' = get_stable_picks
    /\ pc' = "ticket"
    /\ UNCHANGED <<now, prices, volumes, capital, min_margin, max_margin, filter_stale,
                   filter_low_vol, history, file, opps, high_ticket, market_movers,
                   metrics, cycles, data_ok, breach_info, sessions,
                   breach_opps, file_ok>>

\* the cycle unpacks five values; the four-value early return raises ValueError
HighTicket ==
    /\ pc = "ticket"
    /\ high_ticket' = find_high_ticket_items
    /\ pc' = IF high_ticket'.arity = 5 THEN "movers" ELSE "crashed"
    /\ UNCHANGED <<now, prices, volumes, capital, min_margin, max_margin, filter_stale,
                   filter_low_vol, history, file, opps, stable, market_movers,
                   metrics, cycles, data_ok, breach_info, sessions,
                   breach_opps, file_ok>>

\* a detector that stores each window back into the store it reads
MarketMoversInPlace ==
    /\ pc = "movers"
    /\ market_movers' = find_market_movers
    /\ history' = [id \in DOMAIN history |-> MoversWindow(history[id])]
    /\ pc' = "done"
    /\ UNCHANGED <<now, prices, volumes, capital, min_margin, max_margin, filter_stale,
                   filter_low_vol, file, opps, stable, high_ticket,
                   metrics, cycles, data_ok, breach_info, sessions,
                   breach_opps, file_ok>>

MarketMovers ==
    /\ pc = "movers"
    /\ market_movers' = find_market_movers
    /\ pc' = "done"
    /\ UNCHANGED <<now, prices, volumes, capital, min_margin, max_margin, filter_stale,
                   filter_low_vol, history, file, opps, stable, high_ticket,
                   metrics, cycles, data_ok, breach_info, sessions,
                   breach_opps, file_ok>>

Next ==
    \/ LoadData
    \/ LoadDataFails
    \/ FindOpportunities
    \/ RecordPrices
    \/ SaveHistory
    \/ SaveHistoryFails
    \/ StablePicks
    \/ HighTicket
    \/ MarketMovers

Spec == Init /\ [][Next]_vars

-----------------------------------------------------------------------------
(* The refresh cycle started on a history file that holds samples of earlier cycles
   and may be damaged *)

InitDamaged ==
    /\ now = Epoch - RefreshSecs
    /\ prices = <<>>
    /\ volumes = <<>>
    /\ capital = 1000
    /\ min_margin = 3
    /\ max_margin = 30
    /\ filter_stale = TRUE
    /\ filter_low_vol = TRUE
    /\ history = <<>>
    /\ file \in Seeds
    /\ pc = "start"
    /\ opps = <<>>
    /\ stable = <<>>
    /\ high_ticket = NoResult
    /\ market_movers = <<>>
    /\ metrics = NoSignal
    /\ cycles = 0
    /\ data_ok = TRUE
    /\ breach_info = NoBreachInfo
    /\ sessions = NoSessions
    /\ breach_opps = <<>>
    /\ file_ok \in BOOLEAN

SpecDamaged == InitDamaged /\ [][Next]_vars

-----------------------------------------------------------------------------
(* Two dashboard sessions: each runs the script in a thread of its own, on the same
   feed snapshot and the same HISTORY_FILE, and nothing orders their file accesses *)

SessionIds == {"a", "b"}

\* int(time.time()) of a session at its record_prices: session b records a second later
SessionClock(s) == IF s = "a" THEN now ELSE now + 1

InitSessions ==
    /\ now = Epoch
    /\ \E snap \in Snapshots(now) :
          /\ SnapshotOk(snap, now)
          /\ prices = snap
    /\ volumes = VolumesAt
    /\ capital = 1000
    /\ min_margin = 3
    /\ max_margin = 30
    /\ filter_stale = TRUE
    /\ filter_low_vol = TRUE
    /\ history = <<>>
    /\ file \in Seeds
    /\ pc = "start"
    /\ opps = <<>>
    /\ stable = <<>>
    /\ high_ticket = NoResult
    /\ market_movers = <<>>
    /\ metrics = NoSignal
    /\ cycles = 0
    /\ data_ok = TRUE
    /\ breach_info = NoBreachInfo
    /\ sessions = NoSessions
    /\ breach_opps = <<>>
    /\ file_ok = TRUE

\* history = load_history()
SessionLoad(s) ==
    /\ sessions[s].pc = "start"
    /\ sessions' = [sessions EXCEPT ![s].history = file, ![s].pc = "opps"]
    /\ UNCHANGED <<now, prices, volumes, capital, min_margin, max_margin, filter_stale,
                   filter_low_vol, history, file, pc, opps, stable, high_ticket,
                   market_movers, metrics, cycles, data_ok, breach_info,
                   breach_opps, file_ok>>

\* opps = find_opportunities(...); if opps: ...
SessionScore(s) ==
    /\ sessions[s].pc = "opps"
    /\ sessions' = [sessions EXCEPT ![s].opps = find_opportunities,
                                    ![s].pc = IF AfterOpps(find_opportunities) = "record"
                                              THEN "record" ELSE "done"]
    /\ UNCHANGED <<now, prices, volumes, capital, min_margin, max_margin, filter_stale,
                   filter_low_vol, history, file, pc, opps, stable, high_ticket,
                   market_movers, metrics, cycles, data_ok, breach_info,
                   breach_opps, file_ok>>

\* history = record_prices(opps, history)
SessionRecord(s) ==
    /\ sessions[s].pc = "record"
    /\ sessions' = [sessions EXCEPT
                       ![s].history = record_prices(sessions[s].opps, sessions[s].history,
                                                    SessionClock(s)),
                       ![s].pc = "save"]
    /\ UNCHANGED <<now, prices, volumes, capital, min_margin, max_margin, filter_stale,
                   filter_low_vol, history, file, pc, opps, stable, high_ticket,
                   market_movers, metrics, cycles, data_ok, breach_info,
                   breach_opps, file_ok>>

\* save_history(history): the whole store of the session replaces the file
SessionSave(s) ==
    /\ sessions[s].pc = "save"
    /\ file' = sessions[s].history
    /\ sessions' = [sessions EXCEPT ![s].pc = "done"]
    /\ UNCHANGED <<now, prices, volumes, capital, min_margin, max_margin, filter_stale,
                   filter_low_vol, history, pc, opps, stable, high_ticket,
                   market_movers, metrics, cycles, data_ok, breach_info,
                   breach_opps, file_ok>>

NextSessions ==
    \E s \in SessionIds : SessionLoad(s) \/ SessionScore(s) \/ SessionRecord(s) \/ SessionSave(s)

SpecSessions == InitSessions /\ [][NextSessions]_vars

-----------------------------------------------------------------------------
(* Claims *)

IdsOf(recs) == {recs[i].id : i \in 1..Len(recs)}

\* the qualification of item id as the specification states it
QualifiesAsStated(id) ==
    /\ id \in DOMAIN prices
    /\ id \in DOMAIN items
    /\ prices[id].high # 0 /\ prices[id].low # 0
    /\ prices[id].highTime # 0 /\ prices[id].lowTime # 0
    /\ LET sell == Max2(prices[id].high, prices[id].low)
           buy == Min2(prices[id].high, prices[id].low)
           age == Max2(now - prices[id].highTime, now - prices[id].lowTime)
           margin == sell - buy - (sell \div 100)
       IN  /\ age <= 300
           /\ buy >= 10
           /\ sell <= 2 * buy
           /\ sell <= capital
           /\ TotalVol(volumes, id) >= 10
           /\ min_margin * buy <= 100 * margin
           /\ 100 * margin <= max_margin * buy
           /\ Min2(capital \div sell, items[id].limit) >= 1

\* C1: find_opportunities returns an item exactly when it is in the catalog, its
\* quote is complete and it passes every hard filter (age <= 300, buy >= 10,
\* sell/buy <= 2, sell <= capital, volume >= 10, margin% within the bounds,
\* quantity >= 1), each item at most once; sell/buy > 2 is always excluded.
C1_OpportunitiesIffQualified ==
    pc = "ret_opps" =>
        /\ \A id \in 1..4 : (id \in IdsOf(opps)) <=> QualifiesAsStated(id)
        /\ Cardinality(IdsOf(opps)) = Len(opps)
        /\ \A i \in 1..Len(opps) : opps[i].sell <= 2 * opps[i].buy

C1_Witness ==
    /\ pc = "ret_opps"
    /\ 1 \in IdsOf(opps)
    /\ 2 \notin IdsOf(opps)
    /\ prices[1].high < prices[1].low

HistoryOf(id) == IF id \in DOMAIN history THEN history[id] ELSE <<>>

\* C6: analyze_stability returns no signal exactly for 0, 1 or 2 stored samples,
\* and a metrics result for 3 or more, however old the samples are.
C6_NoSignalIffFewerThanThree ==
    pc = "ret_analyze" => (metrics = NoSignal <=> Len(HistoryOf(1)) \in {0, 1, 2})

C6_Witness ==
    /\ pc = "ret_analyze"
    /\ metrics # NoSignal
    /\ Len(HistoryOf(1)) = 3
    /\ \A i \in 1..3 : now - HistoryOf(1)[i].timestamp >= WINDOW_SECS

\* C7: the stability_score of every result lies in [0, 100] (carried in thousandths).
C7_ScoreWithinBounds ==
    (pc = "ret_analyze" /\ metrics # NoSignal) =>
        (0 <= metrics.stability_score /\ metrics.stability_score <= 100000)

\* a window of negative mean margin under the largest freshness penalty, whose
\* score before the clamp is negative
C7_Witness ==
    /\ pc = "ret_analyze"
    /\ metrics # NoSignal
    /\ RLt(metrics.avg_margin, RInt(0))
    /\ metrics.data_age > 600
    /\ RawScore(StabilityWindow(HistoryOf(1))) < 0
    /\ metrics.stability_score = 0

\* a window of zero deviation and mean margin 1000
C7_ZeroDeviationCase ==
    /\ pc = "ret_analyze"
    /\ metrics # NoSignal
    /\ metrics.margin_var = RInt(0)
    /\ metrics.avg_margin = RInt(1000)

\* the samples of h less than 1800 s old
RecentAsStated(h) == SelectSeq(h, LAMBDA x : now - x.timestamp < 1800)

\* the analysis window as the specification states it
WindowAsStated(h) ==
    IF Len(RecentAsStated(h)) >= 3 THEN RecentAsStated(h)
    ELSE SubSeq(h, Max2(1, Len(h) - 9), Len(h))

\* C8: with at least 3 stored samples the window of the analyzer and of the detector
\* is the samples under 1800 s old when there are at least 3 of them, else the last
\* 10 of the buffer (all of it when shorter); it holds at least 3 samples and its
\* first half is not empty.
C8_WindowSelection ==
    Len(HistoryOf(1)) >= 3 =>
        LET w == WindowAsStated(HistoryOf(1))
        IN  /\ StabilityWindow(HistoryOf(1)) = w
            /\ MoversWindow(HistoryOf(1)) = w
            /\ Len(w) >= 3
            /\ Len(w) \div 2 >= 1
            /\ pc = "ret_analyze" =>
                  /\ metrics.samples = Len(w)
                  /\ metrics.latest_buy = w[Len(w)].buy
                  /\ metrics.data_age = now - w[Len(w)].timestamp
            /\ pc = "ret_movers" =>
                  \A i \in 1..Len(market_movers) : market_movers[i].samples = Len(w)

\* the fallback on a buffer of more than 10 samples, and the recent window
C8_Witness ==
    /\ pc = "ret_analyze"
    /\ Len(HistoryOf(1)) > 10
    /\ Len(RecentAsStated(HistoryOf(1))) = 2
    /\ metrics.samples = 10

\* C5: every record returned by find_market_movers has sell >= buy, with a live
\* quote and without one.
C5_MoversSellAtLeastBuy ==
    \A i \in 1..Len(market_movers) : market_movers[i].sell >= market_movers[i].buy

FileOf(id) == IF id \in DOMAIN file THEN file[id] ELSE <<>>

\* the sample of this cycle for item id, from the quote and volume snapshots
SampleAsStated(id) ==
    LET sell == Max2(prices[id].high, prices[id].low)
        buy == Min2(prices[id].high, prices[id].low)
    IN  [timestamp |-> now, buy |-> buy, sell |-> sell,
         margin_pct |-> Rat((sell - buy - (sell \div 100)) * 100, buy),
         volume |-> TotalVol(volumes, id)]

\* C2: no buffer of the History Store, in memory or persisted, ever holds more than
\* 120 samples.
C2_AtMost120Samples ==
    /\ \A id \in DOMAIN history : Len(history[id]) <= 120
    /\ \A id \in DOMAIN file : Len(file[id]) <= 120

\* record_prices has just appended to a buffer that was full
C2_Witness ==
    /\ pc = "save"
    /\ 1 \in IdsOf(opps)
    /\ Len(FileOf(1)) = 120
    /\ Len(history[1]) = 120
    /\ history[1] # file[1]

\* C3: record_prices on a buffer of 120 samples drops exactly the oldest and puts
\* the new sample last, the samples 2..120 keeping their order; on a shorter buffer
\* it drops nothing and puts the new sample last.
C3_EvictionOldestFirst ==
    [][pc = "record" =>
        \A id \in IdsOf(opps) :
            IF Len(HistoryOf(id)) = 120
            THEN history'[id] = SubSeq(history[id], 2, 120) \o <<SampleAsStated(id)>>
            ELSE history'[id] = HistoryOf(id) \o <<SampleAsStated(id)>>]_vars

\* the store after an eviction: the persisted buffer without its first sample, then
\* the new sample
C3_Witness ==
    /\ pc = "save"
    /\ 1 \in IdsOf(opps)
    /\ Len(FileOf(1)) = 120
    /\ history[1] = Tail(file[1]) \o <<SampleAsStated(1)>>
    /\ file[1][1].timestamp < file[1][2].timestamp

NormalizedFromQuote(r) ==
    /\ r.id \in DOMAIN prices
    /\ r.sell = Max2(prices[r.id].high, prices[r.id].low)
    /\ r.buy = Min2(prices[r.id].high, prices[r.id].low)
    /\ r.sell >= r.buy

\* C4: every record of find_opportunities, of get_stable_picks and of the passed
\* list of find_high_ticket_items has sell = max(high, low) >= buy = min(high, low)
\* of the feed quote.
C4_SellAtLeastBuy ==
    /\ \A i \in 1..Len(opps) : NormalizedFromQuote(opps[i])
    /\ \A i \in 1..Len(stable) : NormalizedFromQuote(stable[i])
    /\ \A i \in 1..Len(high_ticket.passed) : NormalizedFromQuote(high_ticket.passed[i])

\* an item quoted with high < low that is in all three lists
C4_Witness ==
    /\ pc = "done"
    /\ 1 \in DOMAIN prices
    /\ prices[1].high < prices[1].low
    /\ 1 \in IdsOf(opps)
    /\ 1 \in IdsOf(stable)
    /\ 1 \in IdsOf(high_ticket.passed)

\* C9: in a cycle record_prices appends exactly one sample, this cycle's, to the
\* buffer of each item of opps and leaves every other buffer as it was loaded.
C9_OneSamplePerQualifyingItem ==
    /\ pc = "save" =>
          \A id \in 1..4 :
              IF id \in IdsOf(opps)
              THEN /\ Len(history[id]) = Min2(120, Len(FileOf(id)) + 1)
                   /\ history[id][Len(history[id])] = SampleAsStated(id)
                   /\ SubSeq(history[id], 1, Len(history[id]) - 1)
                        = LastN(FileOf(id), Len(history[id]) - 1)
              ELSE /\ (id \in DOMAIN history) <=> (id \in DOMAIN file)
                   /\ HistoryOf(id) = FileOf(id)
    /\ (pc \in {"stable", "ticket", "movers", "done", "crashed"} /\ opps = <<>>) =>
          history = file

\* one item appended to while the other, holding samples, did not qualify
C9_Witness ==
    /\ pc = "save"
    /\ 1 \in IdsOf(opps)
    /\ 2 \notin IdsOf(opps)
    /\ 2 \in DOMAIN prices
    /\ Len(FileOf(2)) >= 3
    /\ Len(history[1]) = Len(FileOf(1)) + 1

\* C10: when get_stable_picks and find_market_movers read the history, the append
\* of this cycle is complete: every item of opps has its new sample last in its
\* buffer, trimmed to 120, and the results are those of that history.
C10_AppendBeforeAnalyzers ==
    pc \in {"stable", "ticket", "movers", "done"} =>
        /\ \A id \in IdsOf(opps) :
              /\ id \in DOMAIN history
              /\ Len(history[id]) <= 120
              /\ history[id][Len(history[id])] = SampleAsStated(id)
        /\ \A i \in 1..Len(stable) :
              stable[i].id \in IdsOf(opps) =>
                  stable[i].samples =
                      Len(WindowAsStated(history[stable[i].id]))
        /\ \A i \in 1..Len(market_movers) :
              market_movers[i].id \in IdsOf(opps) =>
                  market_movers[i].samples =
                      Len(WindowAsStated(history[market_movers[i].id]))

\* both analyzers report an item whose window holds the sample appended in this cycle
C10_Witness ==
    /\ pc = "done"
    /\ 1 \in IdsOf(opps)
    /\ 1 \in IdsOf(stable)
    /\ 1 \in IdsOf(market_movers)
    /\ Len(history[1]) = 120
    /\ history[1][120].timestamp = now

C12_SaveFailureNotFatal ==
    [][pc = "save" =>
         /\ pc' = "stable"
         /\ history' = history
         /\ \A id \in IdsOf(opps) : history'[id][Len(history'[id])].timestamp = now]_vars

\* the normalized sell prices max(high, low) of the items with any price data
RECURSIVE SellPricesAsStated(_)
SellPricesAsStated(ids) ==
    IF ids = <<>> THEN <<>>
    ELSE (IF Max2(prices[Head(ids)].high, prices[Head(ids)].low) > 0
          THEN <<Max2(prices[Head(ids)].high, prices[Head(ids)].low)>> ELSE <<>>)
         \o SellPricesAsStated(Tail(ids))

\* the interpolated 75th percentile of the ascending list a
PercentileAsStated(a) ==
    LET k == 3 * (Len(a) - 1)
    IN  IF k % 4 = 0 THEN RInt(a[(k \div 4) + 1])
        ELSE RAdd(RInt(a[(k \div 4) + 1]),
                  Rat((k % 4) * (a[(k \div 4) + 2] - a[(k \div 4) + 1]), 4))

ThresholdAsStated == PercentileAsStated(SortAsc(SellPricesAsStated(KeysInOrder(DOMAIN prices))))

\* C13: the threshold of find_high_ticket_items is the interpolated 75th percentile
\* of the normalized sell prices max(high, low) of all quoted items, whichever way
\* round the feed reported the two prices; the returned value is its integer part.
C13_ThresholdOfNormalizedPrices ==
    (pc = "ret_ticket" /\ high_ticket.arity = 5) =>
        /\ price_threshold = ThresholdAsStated
        /\ high_ticket.threshold = ThresholdAsStated[1] \div ThresholdAsStated[2]

\* the ten sell prices 10, ..., 100 reported the usual way round give 77.5
C13_TenPricesCase ==
    /\ pc = "ret_ticket"
    /\ prices = TenQuotes
    /\ price_threshold = <<155, 2>>
    /\ high_ticket.threshold = 77

NamesOf(recs) == {recs[i].name : i \in 1..Len(recs)}

\* the threshold a call of find_high_ticket_items worked with: the percentile, or the
\* 0 it returns when it computed none
ThresholdOfCall ==
    IF high_ticket.arity = 5 THEN price_threshold ELSE RInt(high_ticket.threshold)

\* a catalog item quoted at a normalized price at or above the threshold
AtOrAboveAsStated(id) ==
    /\ id \in DOMAIN items
    /\ id \in DOMAIN prices
    /\ Max2(prices[id].high, prices[id].low) > 0
    /\ RLe(ThresholdOfCall, RInt(Max2(prices[id].high, prices[id].low)))

ListedOnceAsStated(id) ==
    LET inPassed == id \in IdsOf(high_ticket.passed)
        inRejected == items[id].name \in NamesOf(high_ticket.rejected)
    IN  IF AtOrAboveAsStated(id)
        THEN (inPassed \/ inRejected) /\ ~(inPassed /\ inRejected)
        ELSE ~inPassed /\ ~inRejected

\* C14: every catalog item at or above the threshold is in exactly one of the passed
\* and the rejected list, every rejected entry lists at least one reason, and no
\* other item is in either list.
C14_AboveThresholdListedOnce ==
    pc = "ret_ticket" =>
        /\ \A id \in DOMAIN items : ListedOnceAsStated(id)
        /\ \A i \in 1..Len(high_ticket.rejected) : high_ticket.rejected[i].reasons # <<>>
        /\ Len(high_ticket.passed) + Len(high_ticket.rejected)
             = Cardinality({id \in DOMAIN items : AtOrAboveAsStated(id)})

\* the same for the calls that computed a threshold
C14_WhenThresholdComputed ==
    (pc = "ret_ticket" /\ high_ticket.arity = 5) =>
        /\ \A id \in DOMAIN items : ListedOnceAsStated(id)
        /\ \A i \in 1..Len(high_ticket.rejected) : high_ticket.rejected[i].reasons # <<>>
        /\ Len(high_ticket.passed) + Len(high_ticket.rejected)
             = Cardinality({id \in DOMAIN items : AtOrAboveAsStated(id)})

\* the criteria of the high-ticket classifier as the specification states them
TicketQualifiesAsStated(id) ==
    LET p == prices[id]
        sell == Max2(p.high, p.low)
        buy == Min2(p.high, p.low)
    IN  /\ p.high # 0 /\ p.low # 0 /\ p.highTime # 0 /\ p.lowTime # 0
        /\ Max2(now - p.highTime, now - p.lowTime) <= 86400
        /\ 2 * sell <= 5 * buy
        /\ sell <= capital
        /\ 100 * (sell - buy - (sell \div 100)) >= 2 * buy
        /\ Min2(capital \div sell, items[id].limit) >= 1

\* C15: every item of the passed list has both prices and both timestamps, age at
\* most 86400 s, sell/buy <= 2.5, sell <= capital, margin% >= 2 and quantity >= 1;
\* the volume is no criterion: an item at or above the threshold that meets these is
\* passed whatever its reported volume.
C15_PassedMeetRelaxedCriteria ==
    pc = "ret_ticket" =>
        /\ \A i \in 1..Len(high_ticket.passed) :
              /\ high_ticket.passed[i].id \in DOMAIN prices
              /\ TicketQualifiesAsStated(high_ticket.passed[i].id)
        /\ \A id \in DOMAIN items :
              (AtOrAboveAsStated(id) /\ TicketQualifiesAsStated(id))
                  => id \in IdsOf(high_ticket.passed)

\* a passed item with no reported volume, quoted exactly 86400 s ago at the 2.5 spread
C15_Witness ==
    /\ pc = "ret_ticket"
    /\ 1 \in IdsOf(high_ticket.passed)
    /\ TotalVol(volumes, 1) = 0
    /\ now - prices[1].highTime = 86400
    /\ 2 * prices[1].high = 5 * prices[1].low

-----------------------------------------------------------------------------
(* Market-Mover Detector *)

\* the change of the mean buy price from the first half of the window to the second,
\* in percent, in exact arithmetic
PriceChangeAsStated(w) ==
    LET mid == Len(w) \div 2
        a == RMean(SubSeq(BuyPrices(w), 1, mid))
        b == RMean(SubSeq(BuyPrices(w), mid + 1, Len(w)))
    IN  IF a[1] = 0 THEN RInt(0) ELSE Rat(100 * (b[1] * a[2] - a[1] * b[2]), a[1] * b[2])

MarginChangeAsStated(w) ==
    LET mid == Len(w) \div 2
    IN  RSub(RMean(SubSeq(Margins(w), mid + 1, Len(w))), RMean(SubSeq(Margins(w), 1, mid)))

\* (volume of the last sample) / (mean volume of the window) > 2
VolumeSpikeAsStated(w) ==
    LET total == SumSeq([i \in 1..Len(w) |-> w[i].volume])
    IN  total > 0 /\ w[Len(w)].volume * Len(w) > 2 * total

NoteworthyAsStated(id) ==
    LET w == MoversWindow(history[id])
    IN  /\ id \in DOMAIN items
        /\ Len(history[id]) >= 3
        /\ \/ RLt(RInt(3), PriceChangeAsStated(w))
           \/ RLt(PriceChangeAsStated(w), RInt(-3))
           \/ RLt(RInt(3), MarginChangeAsStated(w))
           \/ RLt(MarginChangeAsStated(w), RInt(-3))
           \/ VolumeSpikeAsStated(w)

\* C16: find_market_movers reports an item exactly when it is in the catalog, has at
\* least 3 stored samples and, over its window, the price change is over 3 or under
\* -3 percent, or the margin change is over 3 or under -3 points, or the last volume
\* is over twice the mean volume.
C16_ReportedIffNoteworthy ==
    pc = "ret_movers" =>
        \A id \in DOMAIN history : (id \in IdsOf(market_movers)) <=> NoteworthyAsStated(id)

\* the price change is exactly 3 or -3 percent
OnPriceThreshold(id) ==
    Len(history[id]) >= 3 /\
        PriceChangeAsStated(MoversWindow(history[id])) \in {RInt(3), RInt(-3)}

\* the equivalence of C16 for the items whose price change is not on a threshold
C16_OffThreshold ==
    pc = "ret_movers" =>
        \A id \in DOMAIN history :
            ~OnPriceThreshold(id) =>
                ((id \in IdsOf(market_movers)) <=> NoteworthyAsStated(id))

\* an item reported for its volume alone, next to one that is not in the catalog
C16_OffThresholdCase ==
    /\ pc = "ret_movers"
    /\ DOMAIN history = {1, 3}
    /\ IdsOf(market_movers) = {1}
    /\ market_movers[1].alerts = <<"volume">>

UrgencyAsStated(r) ==
    (IF r.price_trend \in {"PUMPING", "DUMPING"} THEN 50
     ELSE IF r.price_trend \in {"Rising", "Falling"} THEN 25 ELSE 0)
    + (IF r.margin_trend = "Expanding" THEN 20
       ELSE IF r.margin_trend = "Squeezing" THEN 30 ELSE 0)
    + (IF r.vol_ratio[1] > 3 * r.vol_ratio[2] THEN 20
       ELSE IF r.vol_ratio[1] > 2 * r.vol_ratio[2] THEN 10 ELSE 0)

\* C17: the list of find_market_movers is in non-increasing order of urgency, the
\* urgency of each entry is 50 (pumping, dumping) or 25 (rising, falling), plus 20
\* (margin expanding) or 30 (squeezing), plus 20 (volume ratio over 3) or else 10
\* (over 2); so a Pumping and Squeezing item stands before a Rising item without a
\* margin trend that has the same volume ratio.
C17_OrderedByUrgency ==
    pc = "ret_movers" =>
        /\ \A i \in 1..Len(market_movers) :
              market_movers[i].urgency = UrgencyAsStated(market_movers[i])
        /\ \A i, j \in 1..Len(market_movers) :
              i < j => market_movers[i].urgency >= market_movers[j].urgency
        /\ \A i, j \in 1..Len(market_movers) :
              (/\ market_movers[i].price_trend = "PUMPING"
               /\ market_movers[i].margin_trend = "Squeezing"
               /\ market_movers[j].price_trend = "Rising"
               /\ market_movers[j].margin_trend = "None"
               /\ market_movers[i].vol_ratio = market_movers[j].vol_ratio) => i < j

\* item 2, Pumping and Squeezing, is listed before item 1, Rising with no margin
\* trend, at the same volume ratio, although the history dict holds item 1 first
C17_Witness ==
    /\ pc = "ret_movers"
    /\ Len(market_movers) = 2
    /\ market_movers[1].id = 2 /\ market_movers[2].id = 1
    /\ market_movers[1].price_trend = "PUMPING" /\ market_movers[1].margin_trend = "Squeezing"
    /\ market_movers[2].price_trend = "Rising" /\ market_movers[2].margin_trend = "None"
    /\ market_movers[1].vol_ratio = market_movers[2].vol_ratio
    /\ market_movers[1].urgency = 80 /\ market_movers[2].urgency = 25

-----------------------------------------------------------------------------
(* Stable-Pick Selector *)

\* C18: every item of get_stable_picks has at least 3 history samples and a stability
\* score of at least 20, a live quote with both prices nonzero, a quantity of at least
\* 1 with buy x quantity <= capital, a quote age of at most 600 s when filter_stale is
\* on and a live total volume of at least 5 when filter_low_vol is on; its buy, sell
\* and margin are those of the live quote.
C18_StablePicksMeetCriteria ==
    pc = "ret_stable" =>
        \A i \in 1..Len(stable) :
            LET r == stable[i]
            IN  /\ r.id \in DOMAIN history /\ Len(history[r.id]) >= 3 /\ r.samples >= 3
                /\ r.score >= 20000
                /\ r.id \in DOMAIN prices
                /\ prices[r.id].high # 0 /\ prices[r.id].low # 0
                /\ r.qty >= 1 /\ r.buy * r.qty <= capital
                /\ filter_stale =>
                      /\ prices[r.id].highTime # 0 /\ prices[r.id].lowTime # 0
                      /\ now - prices[r.id].highTime <= 600
                      /\ now - prices[r.id].lowTime <= 600
                /\ filter_low_vol => TotalVol(volumes, r.id) >= 5
                /\ r.buy = Min2(prices[r.id].high, prices[r.id].low)
                /\ r.sell = Max2(prices[r.id].high, prices[r.id].low)
                /\ r.margin = r.sell - r.buy - (r.sell \div 100)

\* both filters on: a pick quoted exactly 600 s ago with a volume of exactly 5, whose
\* live prices differ from the averages of its history
C18_Witness ==
    /\ pc = "ret_stable"
    /\ filter_stale /\ filter_low_vol
    /\ Len(stable) >= 1
    /\ stable[1].id = 1
    /\ now - prices[1].highTime = 600
    /\ TotalVol(volumes, 1) = 5
    /\ stable[1].buy = 900 /\ stable[1].sell = 1000 /\ stable[1].margin = 90
    /\ stable[1].avg_buy = 100 /\ stable[1].avg_sell = 110

\* both filters off: a pick with no timestamp on its quote and no reported volume
C18_FiltersOffCase ==
    /\ pc = "ret_stable"
    /\ ~filter_stale /\ ~filter_low_vol
    /\ 1 \in IdsOf(stable)
    /\ prices[1].highTime = 0
    /\ TotalVol(volumes, 1) = 0

-----------------------------------------------------------------------------
(* Breach Window Helper *)

ScheduleAsStated == {2, 10, 19}

\* the scheduled breach instants of the day of t and of the day after
BreachInstants(t) ==
    {t - (t % 86400) + 86400 * d + 3600 * b : d \in {0, 1}, b \in ScheduleAsStated}

\* the first scheduled breach after t
NextInstantAsStated(t) ==
    CHOOSE x \in BreachInstants(t) : x > t /\ \A y \in BreachInstants(t) : y > t => x <= y

PostBreachAsStated ==
    LET h == (now \div 3600) % 24
    IN  /\ breach_info.in_post_breach <=> \E b \in ScheduleAsStated : b <= h /\ h < b + 2
        /\ \A b \in ScheduleAsStated :
              (b <= h /\ h < b + 2) => breach_info.current_breach = b
        /\ ~breach_info.in_post_breach => breach_info.current_breach = -1

\* C19: get_breach_info reports in_post_breach with current_breach = b exactly when
\* the UTC hour h satisfies b <= h < b + 2 for a b of the schedule 2, 10, 19, and no
\* current breach otherwise; the next breach is the first scheduled hour after now,
\* on the following day when now is later than 19:00.
C19_BreachWindowAndNext ==
    pc = "ret_breach" =>
        /\ PostBreachAsStated
        /\ breach_info.next_breach_utc = NextInstantAsStated(now)
        /\ breach_info.next_breach = (NextInstantAsStated(now) \div 3600) % 24

\* the statement of C19 away from the minute a breach starts in
C19_OffTheBreachMinute ==
    (pc = "ret_breach" /\ ~(current_hour(now) \in ScheduleAsStated /\ current_minute(now) = 0))
        => /\ PostBreachAsStated
           /\ breach_info.next_breach_utc = NextInstantAsStated(now)
           /\ breach_info.next_breach = (NextInstantAsStated(now) \div 3600) % 24

\* hour 3 is inside the window of breach 2
C19_HourThreeCase ==
    /\ pc = "ret_breach"
    /\ current_hour(now) = 3
    /\ breach_info.in_post_breach /\ breach_info.current_breach = 2
    /\ breach_info.next_breach = 10

\* at hour 23 the next breach is hour 2 of the following day
C19_HourTwentyThreeCase ==
    /\ pc = "ret_breach"
    /\ current_hour(now) = 23 /\ current_minute(now) = 30
    /\ ~breach_info.in_post_breach
    /\ breach_info.next_breach = 2
    /\ breach_info.next_breach_utc = Midnight + 86400 + 7200
    /\ breach_info.hours_until = 2 /\ breach_info.mins_until = 30

-----------------------------------------------------------------------------
(* Margin *)

MarginAsStated(sell, buy) == sell - buy - (sell \div 100)

MarginPctAsStated(sell, buy) ==
    IF buy = 0 THEN RInt(0) ELSE Rat(100 * MarginAsStated(sell, buy), buy)

\* the record carries the margin and the margin percentage of its normalized quote
MarginOfQuote(r) ==
    /\ r.id \in DOMAIN prices
    /\ r.sell = Max2(prices[r.id].high, prices[r.id].low)
    /\ r.buy = Min2(prices[r.id].high, prices[r.id].low)
    /\ r.margin = MarginAsStated(r.sell, r.buy)
    /\ r.margin_pct = MarginPctAsStated(r.sell, r.buy)

\* C20: margin = sell - buy - floor(sell x 0.01) and marginPct = margin / buy x 100
\* (0 when buy is 0) of the normalized quote, in every record of find_opportunities,
\* of get_stable_picks and of the passed list of find_high_ticket_items alike;
\* sell = 1000 and buy = 900 give the margin 90 and 10 percent.
C20_SameMarginFormula ==
    /\ \A i \in 1..Len(opps) : MarginOfQuote(opps[i])
    /\ \A i \in 1..Len(stable) : MarginOfQuote(stable[i])
    /\ \A i \in 1..Len(high_ticket.passed) : MarginOfQuote(high_ticket.passed[i])
    /\ MarginAsStated(1000, 900) = 90
    /\ MarginPctAsStated(1000, 900) = RInt(10)

\* one quote, high 900 and low 1000, in all three results with margin 90 and 10 percent
C20_Witness ==
    /\ pc = "classified"
    /\ 1 \in DOMAIN prices
    /\ prices[1].high = 900 /\ prices[1].low = 1000
    /\ \E i \in 1..Len(opps) :
          opps[i].id = 1 /\ opps[i].margin = 90 /\ opps[i].margin_pct = RInt(10)
    /\ \E i \in 1..Len(stable) :
          stable[i].id = 1 /\ stable[i].margin = 90 /\ stable[i].margin_pct = RInt(10)
    /\ \E i \in 1..Len(high_ticket.passed) :
          /\ high_ticket.passed[i].id = 1
          /\ high_ticket.passed[i].margin = 90
          /\ high_ticket.passed[i].margin_pct = RInt(10)

\* a sell price under 100 pays no tax
C20_NoTaxCase ==
    /\ pc = "classified"
    /\ \E i \in 1..Len(stable) :
          stable[i].sell = 99 /\ stable[i].buy = 90 /\ stable[i].margin = 9

-----------------------------------------------------------------------------
(* Frame of the refresh cycle *)

\* the positions of the cycle at which an analyzer runs
AnalyzerSteps == {"opps", "stable", "ticket", "movers"}

\* C21: within a refresh cycle only record_prices changes the History Store; the steps
\* of find_opportunities, get_stable_picks (with analyze_stability),
\* find_high_ticket_items and find_market_movers leave the store, the quote snapshot
\* and the volume snapshot as they were.
C21_OnlyRecordPricesWrites ==
    [][/\ pc \in AnalyzerSteps =>
            (history' = history /\ prices' = prices /\ volumes' = volumes)
       /\ (history' # history /\ pc \notin RunEnded) => pc = "record"]_vars

\* a finished cycle that recorded a sample and then ran every analyzer on a store of
\* more than ten samples of which fewer than three are recent
C21_Witness ==
    /\ pc = "done"
    /\ opps # <<>>
    /\ 2 \in DOMAIN history
    /\ Len(history[2]) > FALLBACK_COUNT
    /\ history[2][Len(history[2])].timestamp = now
    /\ Len(MoversWindow(history[2])) = FALLBACK_COUNT

-----------------------------------------------------------------------------
(* Concurrent sessions *)

BothDone == \A s \in SessionIds : sessions[s].pc = "done"

\* the samples session s appended are in the persisted buffer of their item
AppendsPersisted(s) ==
    \A i \in 1..Len(sessions[s].opps) :
        LET o == sessions[s].opps[i]
        IN  /\ o.id \in DOMAIN file
            /\ \E k \in 1..Len(file[o.id]) : file[o.id][k] = SampleOf(o, SessionClock(s))

\* C22: once two sessions that ran their cycles concurrently have both finished, the
\* persisted store holds every sample either of them appended.
C22_NoAppendLost ==
    BothDone => \A s \in SessionIds : AppendsPersisted(s)

\* the store a session saved held the other session's samples already
SawPeer(s, peer) ==
    \A i \in 1..Len(sessions[peer].opps) :
        LET o == sessions[peer].opps[i]
        IN  /\ o.id \in DOMAIN sessions[s].history
            /\ \E k \in 1..Len(sessions[s].history[o.id]) :
                  sessions[s].history[o.id][k] = SampleOf(o, SessionClock(peer))

\* the statement of C22 for two cycles of which one loaded what the other had saved
C22_WhenOneAfterTheOther ==
    (BothDone /\ (SawPeer("a", "b") \/ SawPeer("b", "a"))) =>
        \A s \in SessionIds : AppendsPersisted(s)

\* two finished cycles, one after the other, that appended to a full buffer
C22_SerialCase ==
    /\ BothDone
    /\ SawPeer("b", "a")
    /\ sessions["a"].opps # <<>>
    /\ 1 \in DOMAIN file /\ Len(file[1]) = HISTORY_CAP
    /\ file[1][HISTORY_CAP].timestamp = now + 1
    /\ file[1][HISTORY_CAP - 1].timestamp = now

-----------------------------------------------------------------------------
(* Analyzer and detector on the same history *)

\* the detector's label for an analyzer label
DetectorLabel(label) ==
    IF label = "Pumping" THEN "PUMPING"
    ELSE IF label = "Dumping" THEN "DUMPING"
    ELSE IF label = "Stable" THEN "None"
    ELSE label

\* C23: on a history of at least 3 samples and at the same time, analyze_stability and
\* find_market_movers use the same window, the same price change and margin change of
\* its two halves, and corresponding labels, the analyzer's Stable being the
\* detector's absence of a trend.
C23_AnalyzerMatchesDetector ==
    (pc = "ret_analyze" /\ metrics.ok) =>
        LET r == MoverRecord(1)
            w == MoversWindow(history[1])
        IN  /\ StabilityWindow(history[1]) = w
            /\ metrics.samples = r.samples
            /\ metrics.price_change = r.price_change
            /\ MarginChange(StabilityWindow(history[1])) = r.margin_change
            /\ DetectorLabel(metrics.price_trend) = r.price_trend
            /\ DetectorLabel(metrics.margin_trend) = r.margin_trend

\* both on the last-10 fallback of a longer history, with a rising price
C23_Witness ==
    /\ pc = "ret_analyze"
    /\ metrics.ok
    /\ Len(history[1]) > FALLBACK_COUNT
    /\ metrics.samples = FALLBACK_COUNT
    /\ metrics.price_trend = "Rising"
    /\ MoverRecord(1).price_trend = "Rising"
    /\ MoverRecord(1).samples = FALLBACK_COUNT

\* both on six recent samples, a pumping price with a squeezed margin
C23_PumpingCase ==
    /\ pc = "ret_analyze"
    /\ metrics.ok
    /\ metrics.samples = 6
    /\ metrics.price_trend = "Pumping" /\ metrics.margin_trend = "Squeezing"
    /\ MoverRecord(1).price_trend = "PUMPING" /\ MoverRecord(1).margin_trend = "Squeezing"


-----------------------------------------------------------------------------
(* Breach scanner *)

\* a curated item whose quote has both prices and the instant-sell price above the
\* instant-buy price
InvertedBreachQuote(id) ==
    /\ id \in DOMAIN BREACH_ITEMS
    /\ id \in DOMAIN prices
    /\ prices[id].high # 0
    /\ prices[id].low # 0
    /\ prices[id].high < prices[id].low

\* the item is listed with sell = the larger price, buy = the smaller one and the margin
\* of those two
ListedNormalized(id) ==
    LET sell == Max2(prices[id].high, prices[id].low)
        buy == Min2(prices[id].high, prices[id].low)
    IN  \E i \in DOMAIN breach_opps :
            /\ breach_opps[i].item_id = id
            /\ breach_opps[i].sell = sell
            /\ breach_opps[i].buy = buy
            /\ breach_opps[i].margin = Margin(sell, buy)

\* C24: once scan_breach_items has returned, every curated breach item whose quote has
\* both prices nonzero and high below low is listed with sell = max(high, low),
\* buy = min(high, low) and the margin of the normalized prices; no listed record has
\* buy above sell.
C24_InvertedQuoteNormalized ==
    pc = "ret_scan" =>
        /\ \A id \in DOMAIN BREACH_ITEMS : InvertedBreachQuote(id) => ListedNormalized(id)
        /\ \A i \in DOMAIN breach_opps : breach_opps[i].buy <= breach_opps[i].sell

\* what the code does with an inverted quote: the item is left out of the result
C24_InvertedQuoteDropped ==
    pc = "ret_scan" =>
        \A id \in DOMAIN BREACH_ITEMS :
            InvertedBreachQuote(id) => \A i \in DOMAIN breach_opps : breach_opps[i].item_id # id

\* what the code reports for a quote in order: 'buy' is the higher price
C24_BuyCarriesHigh ==
    pc = "ret_scan" =>
        \A i \in DOMAIN breach_opps :
            /\ breach_opps[i].buy = prices[breach_opps[i].item_id].high
            /\ breach_opps[i].sell = prices[breach_opps[i].item_id].low
            /\ breach_opps[i].buy > breach_opps[i].sell

\* an inverted quote of Super restore(4) was scanned next to a listed Manta ray
C24_InvertedCase ==
    /\ pc = "ret_scan"
    /\ InvertedBreachQuote(3024)
    /\ Len(breach_opps) >= 1
    /\ breach_opps[1].item_id = 391

-----------------------------------------------------------------------------
(* Shape of the classifier's result *)

\* no quote of the snapshot has a positive 'high'
NoPositiveHigh == \A id \in DOMAIN prices : ~(prices[id].high > 0)

\* C25: find_high_ticket_items returns five values for every snapshot, so the cycle's
\* five-way unpacking never fails: once the classifier has returned, its result has
\* five components and the run has not stopped at the unpacking.
C25_FiveValuesAlways ==
    /\ pc \in {"movers", "done", "crashed"} => high_ticket.arity = 5
    /\ pc # "crashed"

\* whenever some quote has a positive 'high', the result has five components
C25_FiveValuesWhenPriced ==
    (pc \in {"movers", "done", "crashed"} /\ ~NoPositiveHigh) =>
        (high_ticket.arity = 5 /\ pc # "crashed")

\* a cycle whose snapshot has no quote with a positive 'high' stopped at the unpacking
C25_NoPositiveHighCase ==
    /\ pc = "crashed"
    /\ NoPositiveHigh
    /\ high_ticket.arity = 4

-----------------------------------------------------------------------------
(* Counters of the classifier *)

\* the result carries the counters of filter_stats
HasCounters == "total_above_threshold" \in DOMAIN high_ticket.stats

\* the reasons listed over all rejected items
ReasonsListed ==
    SumSeq([i \in 1..Len(high_ticket.rejected) |-> Len(high_ticket.rejected[i].reasons)])

\* the per-reason counters of the rejected items
ReasonCounters ==
    high_ticket.stats.no_valid_prices + high_ticket.stats.stale_prices
    + high_ticket.stats.bad_spread + high_ticket.stats.cant_afford
    + high_ticket.stats.no_volume + high_ticket.stats.low_margin
    + high_ticket.stats.cant_buy_any

CountersAsStated ==
    /\ HasCounters
    /\ high_ticket.stats.total_above_threshold
         = high_ticket.stats.passed + Len(high_ticket.rejected)
    /\ high_ticket.stats.total_above_threshold
         = Cardinality({id \in DOMAIN items : AtOrAboveAsStated(id)})
    /\ high_ticket.stats.passed = Len(high_ticket.passed)
    /\ ReasonCounters = ReasonsListed
    /\ ReasonCounters >= Len(high_ticket.rejected)

\* C26: after find_high_ticket_items, total_above_threshold = passed + the number of
\* rejected items, every catalog item at or above the threshold is counted once in
\* the total and in exactly one of passed or rejected, and the per-reason counters
\* add up to the number of reasons listed, which alone may exceed the number of
\* rejected items.
C26_CountersAddUp == pc = "ret_ticket" => CountersAsStated

\* the same for the calls that computed a threshold
C26_WhenThresholdComputed == (pc = "ret_ticket" /\ high_ticket.arity = 5) => CountersAsStated

\* an item rejected by several checks: more reasons counted than items rejected
C26_SeveralReasonsCase ==
    /\ pc = "ret_ticket"
    /\ high_ticket.arity = 5
    /\ high_ticket.passed # <<>>
    /\ \E i \in 1..Len(high_ticket.rejected) : Len(high_ticket.rejected[i].reasons) >= 2
    /\ ReasonCounters > Len(high_ticket.rejected)

\* a quoted catalog item and no counters: the call returned before counting
C26_NoCountersCase ==
    /\ pc = "ret_ticket"
    /\ ~HasCounters
    /\ \E id \in DOMAIN items : AtOrAboveAsStated(id)

-----------------------------------------------------------------------------
(* Margin dispersion *)

\* the population variance sum((x - mean)^2) / n
PopulationVariance(s) ==
    LET n == Len(s)
        D == CommonDen(s)
        X == Numerators(s, D)
        sx == SumSeq(X)
        sxx == SumSeq([i \in 1..n |-> X[i] * X[i]])
    IN  IF n > 1 THEN Rat(n * sxx - sx * sx, D * D * n * n) ELSE RInt(0)

\* the sample variance sum((x - mean)^2) / (n - 1)
SampleVariance(s) ==
    LET n == Len(s)
        D == CommonDen(s)
        X == Numerators(s, D)
        sx == SumSeq(X)
        sxx == SumSeq([i \in 1..n |-> X[i] * X[i]])
    IN  IF n > 1 THEN Rat(n * sxx - sx * sx, D * D * n * (n - 1)) ELSE RInt(0)

\* the score of a window whose dispersion term is taken from the given variance
ScoreWith(w, variance) ==
    Clamp(DispersionTerm(variance)
          + Min2(30000, FloorMilli(RMean(Margins(w))))
          + (IF PriceTrend(PriceChange(w), PriceChangeSkew(w)) = "Stable" THEN 10000 ELSE 0)
          + Min2(10, Len(w)) * 1000
          - FreshnessPenalty(now - w[Len(w)].timestamp))

AnalyzedWindow == StabilityWindow(history[1])

\* C27: the margin dispersion analyze_stability feeds into the stability score is the
\* population standard deviation of margin_pct over the window (divisor n): the
\* variance it works with is the population variance, 2/3 for the margins 1, 2, 3.
C27_PopulationDeviation ==
    (pc = "ret_analyze" /\ metrics.ok) =>
        /\ metrics.margin_var = PopulationVariance(Margins(AnalyzedWindow))
        /\ metrics.stability_score
             = ScoreWith(AnalyzedWindow, PopulationVariance(Margins(AnalyzedWindow)))

\* what the code works with: statistics.stdev, the sample deviation (divisor n - 1)
C27_SampleDeviation ==
    (pc = "ret_analyze" /\ metrics.ok) =>
        /\ metrics.margin_var = SampleVariance(Margins(AnalyzedWindow))
        /\ metrics.stability_score
             = ScoreWith(AnalyzedWindow, SampleVariance(Margins(AnalyzedWindow)))

\* the window with the margins 1, 2, 3: the variance used is 1, the score 55
C27_OneTwoThreeCase ==
    /\ pc = "ret_analyze"
    /\ metrics.ok
    /\ Margins(AnalyzedWindow) = <<RInt(1), RInt(2), RInt(3)>>
    /\ metrics.margin_var = RInt(1)
    /\ PopulationVariance(Margins(AnalyzedWindow)) = <<2, 3>>
    /\ metrics.data_age = 10
    /\ metrics.stability_score = 40000 + 2000 + 10000 + 3000

-----------------------------------------------------------------------------
(* Breach countdown *)

\* now with its seconds dropped
ThisMinute == now - (now % 60)

\* the first scheduled breach instant at or after the minute of now
BreachFromThisMinute ==
    CHOOSE x \in BreachInstants(now) :
        x >= ThisMinute /\ \A y \in BreachInstants(now) : y >= ThisMinute => x <= y

\* the countdown f"{hours_until}h {mins_until}m", in minutes
CountdownMinutes == 60 * breach_info.hours_until + breach_info.mins_until

\* C28: the countdown of get_breach_info is non-negative and at most 9 hours, it is the
\* whole hours and minutes, seconds ignored, from now to the next scheduled breach hour
\* of 2, 10, 19 (0h 0m in the minute a breach starts in, hour 2 of the next day after
\* 19:00), and it leads exactly to the next-breach date-time of the same call, which is
\* on the following day exactly when the countdown passes midnight.
C28_CountdownToNextBreach ==
    pc = "ret_breach" =>
        /\ breach_info.hours_until >= 0
        /\ breach_info.mins_until \in 0..59
        /\ CountdownMinutes <= 9 * 60
        /\ ThisMinute + 60 * CountdownMinutes = BreachFromThisMinute
        /\ ThisMinute + 60 * CountdownMinutes = breach_info.next_breach_utc
        /\ (breach_info.next_breach_utc >= now - (now % 86400) + 86400)
             <=> (ThisMinute + 60 * CountdownMinutes >= now - (now % 86400) + 86400)
        /\ (breach_info.next_breach_utc \div 3600) % 24 = breach_info.next_breach

\* at 19:01:30 the countdown wraps to hour 2 of the following day
C28_Witness ==
    /\ pc = "ret_breach"
    /\ now = Midnight + 19 * 3600 + 60 + 30
    /\ breach_info.hours_until = 6 /\ breach_info.mins_until = 59
    /\ breach_info.next_breach_utc = Midnight + 86400 + 2 * 3600

\* in the minute breach 10 starts in the countdown is 0h 0m
C28_BreachMinuteCase ==
    /\ pc = "ret_breach"
    /\ now = Midnight + 10 * 3600 + 30
    /\ breach_info.hours_until = 0 /\ breach_info.mins_until = 0
    /\ breach_info.next_breach_utc = Midnight + 10 * 3600

\* the longest countdown, one minute after breach 10 started
C28_LongestCase ==
    /\ pc = "ret_breach"
    /\ now = Midnight + 10 * 3600 + 60
    /\ breach_info.hours_until = 8 /\ breach_info.mins_until = 59

-----------------------------------------------------------------------------
(* Samples that get no successor *)

\* item 1 holds at least 3 stored samples
HoldsThree == 1 \in DOMAIN history /\ Len(history[1]) >= 3

LastTen == LastN(history[1], 10)

\* the samples under 1800 s old
RecentNow == SelectSeq(history[1], LAMBDA x : now - x.timestamp < 1800)

\* the window of the cycle that stored the last sample
WindowWhenRecorded ==
    LET t == history[1][Len(history[1])].timestamp
        w == SelectSeq(history[1], LAMBDA x : t - x.timestamp < 1800)
    IN  IF Len(w) < 3 THEN LastTen ELSE w

\* metrics is the analysis of the window w, with the freshness penalty of now
MetricsAre(w) ==
    /\ metrics.ok
    /\ metrics.samples = Len(w)
    /\ metrics.avg_margin = RMean(Margins(w))
    /\ metrics.avg_volume = RMean(Volumes(w))
    /\ metrics.margin_var = Variance(Margins(w))
    /\ metrics.margin_trend = MarginTrend(MarginChange(w))
    /\ metrics.price_change = PriceChange(w)
    /\ metrics.price_trend = PriceTrend(PriceChange(w), PriceChangeSkew(w))
    /\ metrics.latest_buy = w[Len(w)].buy
    /\ metrics.data_age = now - history[1][Len(history[1])].timestamp
    /\ metrics.stability_score = ScoreWith(w, Variance(Margins(w)))

ReportedNow == \E i \in 1..Len(market_movers) : market_movers[i].id = 1

ShowsTrendOrSpike(w) == MoverAlerts(w) # <<>>

\* C29 as stated: on every cycle after the last sample an item with at least 3 stored
\* samples still gets a result from analyze_stability, find_market_movers reports it
\* exactly when its last 10 samples show a trend or a volume spike, and the result is
\* the one of the cycle that stored the last sample but for the freshness penalty.
C29_OnlyPenaltyChanges ==
    (pc = "analyzed" /\ HoldsThree) =>
        /\ MetricsAre(WindowWhenRecorded)
        /\ ReportedNow <=> ShowsTrendOrSpike(LastTen)

\* C29, amended: on every cycle after the last sample an item with at least 3 stored
\* samples still gets a result from analyze_stability. While at least 3 samples are
\* under 1800 s old both functions work on those samples; from then on, however much
\* time has passed, both work on the last 10 stored samples: the result is the
\* analysis of the last 10 with the freshness penalty of the age of the last sample,
\* and the item is reported exactly when the last 10 show a trend or a volume spike.
C29_NeverAgesOut ==
    (pc = "analyzed" /\ HoldsThree) =>
        /\ metrics.ok
        /\ Len(RecentNow) < 3 =>
              /\ MetricsAre(LastTen)
              /\ ReportedNow <=> ShowsTrendOrSpike(LastTen)
        /\ Len(RecentNow) >= 3 =>
              /\ MetricsAre(RecentNow)
              /\ ReportedNow <=> ShowsTrendOrSpike(RecentNow)
        /\ Len(RecentNow) = 0 => FreshnessPenalty(metrics.data_age) = 30000

\* more than a day after the last of 12 samples: the last 10 are analysed and reported
C29_Witness ==
    /\ pc = "analyzed"
    /\ now >= Epoch + 86400
    /\ Len(history[1]) = 12
    /\ RecentNow = <<>>
    /\ metrics.ok
    /\ metrics.samples = 10
    /\ metrics.price_trend = "Rising"
    /\ ReportedNow

\* the same 12 samples in the cycle that stored the last one: all 12 are in the
\* window, which shows no trend, and the item is not reported
C29_AllTwelveCase ==
    /\ pc = "analyzed"
    /\ now = Epoch
    /\ Len(history[1]) = 12
    /\ metrics.ok
    /\ metrics.samples = 12
    /\ metrics.price_trend = "Stable"
    /\ ShowsTrendOrSpike(LastTen)
    /\ ~ReportedNow

-----------------------------------------------------------------------------
(* A history file that cannot be parsed *)

\* the store holds one sample per item of opps, taken in this cycle, and nothing else
OnlyThisCycle(store) ==
    /\ DOMAIN store = {opps[i].id : i \in 1..Len(opps)}
    /\ \A id \in DOMAIN store : Len(store[id]) = 1 /\ store[id][1].timestamp = now

\* C30: when HISTORY_FILE cannot be parsed, LOAD DATA goes on with an empty store and
\* reports no error; the save of a cycle in which an item qualified then replaces the
\* file by that cycle's samples alone, so that nothing stored before is left; and the
\* file is written by save_history only, which runs only when opps is not empty.
C30_UnreadableFileDiscarded ==
    [][/\ (pc \in RunEnded /\ pc' = "opps" /\ ~file_ok) =>
             (history' = <<>> /\ data_ok' /\ file' = file /\ ~file_ok')
       /\ (pc = "save" /\ pc' = "stable" /\ ~file_ok) =>
             (file_ok' /\ OnlyThisCycle(file')
              /\ \A id \in DOMAIN file : \A k \in 1..Len(file[id]) :
                    id \notin DOMAIN file' \/ file[id][k] # file'[id][1])
       /\ (file' # file \/ file_ok' # file_ok) => (pc = "save" /\ opps # <<>>)]_vars

\* the file held 120 samples of item 1 and cannot be parsed; the cycle's store holds
\* the one sample of this cycle and is about to replace it
C30_Witness ==
    /\ pc = "save"
    /\ ~file_ok
    /\ 1 \in DOMAIN file /\ Len(file[1]) = HISTORY_CAP
    /\ opps # <<>>
    /\ OnlyThisCycle(history)

\* a cycle in which nothing qualified ran to its end on the damaged file
C30_NothingQualifiedCase ==
    /\ pc = "done"
    /\ ~file_ok
    /\ opps = <<>>
    /\ history = <<>>
    /\ 1 \in DOMAIN file /\ Len(file[1]) = HISTORY_CAP

=========================================================================
